---------------------------- MODULE Spec2Model ----------------------------
(***************************************************************************)
(* Model of the sales-lead builder's discovery and extraction engine:      *)
(*   SiteCrawler.crawl            (site_scraper.py)                        *)
(*   OfficialSiteSelector.select  (site_selector.py)                       *)
(*   extract_contact_info         (site_scraper.py)                        *)
(*   LeadProcessor.process_row    (processor.py)                           *)
(* Each component has its own specification over the shared variables; the *)
(* variables of the components a specification does not run stay idle.     *)
(***************************************************************************)
EXTENDS Integers, Sequences, FiniteSets, TLC

VARIABLES
    \* ---- SiteCrawler.crawl
    settings,     \* [crawler_max_pages, crawler_max_depth]
    cpc,          \* position in crawl: "idle" | "loop" | "done"
    base_host,    \* urlparse(base_url).netloc
    visited,      \* set of normalized URLs
    results,      \* sequence of fetched pages [url, anchors]
    queue,        \* deque of entries [url, depth] (+ src, pos: where the link was found)
    fetched,      \* history: the URLs handed to fetcher.fetch, in order
    dequeued,     \* history: the entries popped from the queue, in order
    outcome,      \* history: what became of each popped entry: "skipped" | "failed" | "ok"
    \* ---- OfficialSiteSelector.select
    spc,          \* position in select: "loop" | "done"
    company_name, \* the company name passed to select
    candidates,   \* the search results passed to select
    sel_i,        \* index of the next candidate of the for loop
    best,         \* None or the best SiteCandidate so far
    sel_log,      \* history: the fetch made for each candidate and its outcome
    \* ---- extract_contact_info
    epc,          \* position in extract_contact_info: "idle" | "scan" | "done"
    ext_pages,    \* the pages passed in
    ext_base,     \* the base_url passed in
    ext_k,        \* index of the next page of the for loop
    extraction,   \* the ExtractionResult being filled
    evidence,     \* the evidence set
    \* ---- LeadProcessor.process_row
    rpc,          \* position in process_row
    row_cfg,      \* [dry_run, report_generator]: settings.dry_run, a generator exists
    row_site,     \* None or the official URL of the selected candidate
    row_pages,    \* the pages the crawler returned
    row_report,   \* None or the generated report
    row_exc,      \* None or the message of the exception raised in the try block
    updates,      \* the updates of the returned ProcessOutcome
    logs,         \* the stages of the LogEntry list
    calls,        \* history: the collaborators invoked, in order
    writes,       \* history: the calls made on the row store
    \* ---- CompanyRow.from_row
    fpc,          \* position in from_row: "idle", "done" or "raised"
    row_values,   \* the row_values passed in
    company_row,  \* the CompanyRow returned
    \* ---- cli.run and LeadProcessor.process_sheet
    run_pc,       \* position in run: "idle" | "loop" | "done" | "bad_parameter" | "exit_1"
    opts,         \* the command-line options and the dry_run of the environment
    sheet,        \* the data rows of the main sheet, sheet[k] being sheet row k + 1
    rows,         \* the rows fetch_rows returned
    run_i,        \* index of the next row of the for loop of process_sheet
    outcomes,     \* the outcomes of process_row in order: [row_index, status]
    batch         \* history: the batchUpdate requests: [row_index, fields]

crawlVars == <<settings, cpc, base_host, visited, results, queue, fetched, dequeued,
               outcome>>
selVars == <<spc, company_name, candidates, sel_i, best, sel_log>>

extVars == <<epc, ext_pages, ext_base, ext_k, extraction, evidence>>

rowVars == <<rpc, row_cfg, row_site, row_pages, row_report, row_exc, updates, logs,
             calls, writes>>

fromVars == <<fpc, row_values, company_row>>

runVars == <<run_pc, opts, sheet, rows, run_i, outcomes, batch>>

vars == <<crawlVars, selVars, extVars, rowVars, fromVars, runVars>>

\* Optional values: None, or a value that is present
None == <<>>
Some(x) == <<x>>

-----------------------------------------------------------------------------
(* Bounds of the model *)

MaxPages == 3      \* largest crawler_max_pages tried
MaxDepth == 2      \* largest crawler_max_depth tried
MaxCands == 3      \* most search results handed to select
MaxExtPages == 2   \* most pages handed to extract_contact_info
MaxRowPages == 1   \* most pages the crawler returns to process_row
MaxPattern == 2    \* longest pattern of cell values a sheet row repeats

-----------------------------------------------------------------------------
(* URLs: urlparse's components.  A host is the network location. *)

BaseHost  == "example.co.jp"
SubHost   == "www.example.co.jp"
OtherHost == "other.com"

Url(scheme, host, path, frag) ==
    [scheme |-> scheme, host |-> host, path |-> path, frag |-> frag]

\* SiteCrawler._normalize_url: the URL with its fragment removed
NormalizeUrlNoop(url) == url
NormalizeUrl(url) == [url EXCEPT !.frag = ""]

\* CONTACT_KEYWORDS, as they occur in the paths and fragments of the model
KeywordPaths == {"/contact"}
KeywordFrags == {"form"}

\* any(keyword in href.lower() for keyword in CONTACT_KEYWORDS)
HrefHasContactKeyword(href) ==
    href.path \in KeywordPaths \/ href.frag \in KeywordFrags

\* urljoin(page.url, href): an href with a scheme or a host is absolute,
\* otherwise it is resolved against the page's final URL; an empty path
\* ("#frag") keeps the page's path.
UrlJoin(pageUrl, href) ==
    IF href.scheme # "" THEN href
    ELSE IF href.host # "" THEN [href EXCEPT !.scheme = pageUrl.scheme]
    ELSE Url(pageUrl.scheme, pageUrl.host,
             IF href.path = "" THEN pageUrl.path ELSE href.path, href.frag)

\* The anchors (<a href=...>) a page may hold: the href and whether the
\* anchor's visible text holds a contact keyword.
Anchor(href, textKw) == [href |-> href, textKw |-> textKw]

About      == Anchor(Url("", "", "/about", ""), FALSE)
AboutText  == Anchor(Url("", "", "/about", ""), TRUE)     \* keyword in the text only
AboutForm  == Anchor(Url("", "", "/about", "form"), FALSE) \* keyword in the fragment
Contact    == Anchor(Url("", "", "/contact", ""), TRUE)
Inquiry    == Anchor(Url("", "", "/contact", "top"), FALSE)
HomeTop    == Anchor(Url("", "", "/", "top"), FALSE)
NewsAbs    == Anchor(Url("https", BaseHost, "/news", ""), FALSE)
SubContact == Anchor(Url("https", SubHost, "/contact", ""), TRUE)
OffSite    == Anchor(Url("https", OtherHost, "/contact", ""), TRUE)
MailTo     == Anchor(Url("mailto", "", "info", ""), TRUE)

\* The anchor lists of the pages a site may serve, in document order.
AnchorSeqs ==
    { <<>>,
      <<About, Contact>>,
      <<NewsAbs, AboutText>>,
      <<Contact, AboutForm, About>>,
      <<About, AboutForm, HomeTop>>,
      <<SubContact, MailTo, OffSite>>,
      <<Inquiry, NewsAbs, Contact>> }

StartUrls ==
    { Url("https", BaseHost, "/", ""),
      Url("https", BaseHost, "/", "top"),
      Url("https", BaseHost, "/about", "") }

\* What PageFetcher.fetch may return for a URL: the final URL is the
\* requested one, or a redirect target on another host.
FinalUrls(url) == { url, Url(url.scheme, OtherHost, url.path, "") }

-----------------------------------------------------------------------------
(* SiteCrawler.crawl *)

notCrawl == <<selVars, extVars, rowVars, fromVars, runVars>>

SelectIdle ==
    /\ spc = "idle"
    /\ company_name = <<>>
    /\ candidates = <<>>
    /\ sel_i = 1
    /\ best = None
    /\ sel_log = <<>>

\* ExtractionResult()
EmptyExtraction ==
    [contact_form_url |-> None, email_main |-> None, email_role_based |-> <<>>,
     email_guessed |-> <<>>, phone_main |-> None, fax_main |-> None,
     sns |-> <<>>, evidence_sources |-> {}]

ExtractIdle ==
    /\ epc = "idle"
    /\ ext_pages = <<>>
    /\ ext_base = Url("", "", "", "")
    /\ ext_k = 1
    /\ extraction = EmptyExtraction
    /\ evidence = {}

NoUpdates == <<>>

RowIdle ==
    /\ rpc = "idle"
    /\ row_cfg = [dry_run |-> FALSE, report_generator |-> FALSE]
    /\ row_site = None
    /\ row_pages = <<>>
    /\ row_report = None
    /\ row_exc = None
    /\ updates = NoUpdates
    /\ logs = <<>>
    /\ calls = <<>>
    /\ writes = <<>>

FromRowIdle ==
    /\ fpc = "idle"
    /\ row_values = <<>>
    /\ company_row = <<>>

NoOptions ==
    [row_number |-> None, company |-> None, limit |-> None, force |-> FALSE,
     dry_run |-> FALSE, env_dry_run |-> FALSE]

RunIdle ==
    /\ run_pc = "idle"
    /\ opts = NoOptions
    /\ sheet = <<>>
    /\ rows = <<>>
    /\ run_i = 1
    /\ outcomes = <<>>
    /\ batch = <<>>

Entry(url, depth, src, pos) ==
    [url |-> url, depth |-> depth, src |-> src, pos |-> pos]

\* (mutant) link discovery that appends every kept link to the back
RECURSIVE DiscoverAppendOnly(_, _, _, _, _)
DiscoverAppendOnly(q, page, depth, src, i) ==
    IF i > Len(page.anchors) THEN q
    ELSE
        LET abs_url == UrlJoin(page.url, page.anchors[i].href)
        IN  IF abs_url.scheme \notin {"http", "https"} \/ abs_url.host # base_host
                THEN DiscoverAppendOnly(q, page, depth, src, i + 1)
            ELSE DiscoverAppendOnly(Append(q, Entry(abs_url, depth + 1, src, i)),
                                    page, depth, src, i + 1)

\* (mutant) link discovery that keeps links to every host
RECURSIVE DiscoverAnyHost(_, _, _, _, _)
DiscoverAnyHost(q, page, depth, src, i) ==
    IF i > Len(page.anchors) THEN q
    ELSE
        LET href    == page.anchors[i].href
            abs_url == UrlJoin(page.url, href)
            e       == Entry(abs_url, depth + 1, src, i)
        IN  IF abs_url.scheme \notin {"http", "https"}
                THEN DiscoverAnyHost(q, page, depth, src, i + 1)
            ELSE IF HrefHasContactKeyword(href)
                THEN DiscoverAnyHost(<<e>> \o q, page, depth, src, i + 1)
            ELSE DiscoverAnyHost(Append(q, e), page, depth, src, i + 1)

\* the link-discovery loop over the anchors of a fetched page, from anchor i on
RECURSIVE Discover(_, _, _, _, _)
Discover(q, page, depth, src, i) ==
    IF i > Len(page.anchors) THEN q
    ELSE
        LET href    == page.anchors[i].href
            abs_url == UrlJoin(page.url, href)
            e       == Entry(abs_url, depth + 1, src, i)
        IN  IF abs_url.scheme \notin {"http", "https"}
                THEN Discover(q, page, depth, src, i + 1)
            ELSE IF abs_url.host # base_host
                THEN Discover(q, page, depth, src, i + 1)
            ELSE IF HrefHasContactKeyword(href)
                THEN Discover(<<e>> \o q, page, depth, src, i + 1)
            ELSE Discover(Append(q, e), page, depth, src, i + 1)

\* (mutant) the URL is not recorded as visited
MarkVisitedLate(v, normalized_url) == v

\* visited.add(normalized_url), before the fetch
MarkVisited(v, normalized_url) == v \cup {normalized_url}

\* (mutant) links are still discovered on pages at the maximum depth
AtMaxDepthOffByOne(depth) == depth > settings.crawler_max_depth

\* if depth >= self.settings.crawler_max_depth: continue
AtMaxDepth(depth) == depth >= settings.crawler_max_depth

\* while queue and len(results) < crawler_max_pages
LoopCondNoLimit == queue # <<>>
LoopCond == queue # <<>> /\ Len(results) < settings.crawler_max_pages

\* crawl(base_url): the set-up before the loop
CrawlCall ==
    /\ cpc = "idle"
    /\ \E base_url \in StartUrls :
        /\ queue' = <<Entry(base_url, 0, 0, 0)>>
        /\ base_host' = base_url.host
    /\ visited' = {}
    /\ results' = <<>>
    /\ cpc' = "loop"
    /\ UNCHANGED <<settings, fetched, dequeued, outcome>>
    /\ UNCHANGED notCrawl

\* one iteration: the popped URL was visited already
LoopSkipVisited ==
    /\ cpc = "loop"
    /\ LoopCond
    /\ NormalizeUrl(Head(queue).url) \in visited
    /\ queue' = Tail(queue)
    /\ dequeued' = Append(dequeued, Head(queue))
    /\ outcome' = Append(outcome, "skipped")
    /\ UNCHANGED <<settings, cpc, base_host, visited, results, fetched>>
    /\ UNCHANGED notCrawl

\* one iteration: the fetch fails (fetch returns None)
LoopFetchFail ==
    /\ cpc = "loop"
    /\ LoopCond
    /\ NormalizeUrl(Head(queue).url) \notin visited
    /\ visited' = MarkVisited(visited, NormalizeUrl(Head(queue).url))
    /\ fetched' = Append(fetched, Head(queue).url)
    /\ queue' = Tail(queue)
    /\ dequeued' = Append(dequeued, Head(queue))
    /\ outcome' = Append(outcome, "failed")
    /\ UNCHANGED <<settings, cpc, base_host, results>>
    /\ UNCHANGED notCrawl

\* one iteration: the fetch succeeds; links are discovered below max depth
LoopFetchOk ==
    /\ cpc = "loop"
    /\ LoopCond
    /\ NormalizeUrl(Head(queue).url) \notin visited
    /\ visited' = MarkVisited(visited, NormalizeUrl(Head(queue).url))
    /\ fetched' = Append(fetched, Head(queue).url)
    /\ dequeued' = Append(dequeued, Head(queue))
    /\ outcome' = Append(outcome, "ok")
    /\ \E final \in FinalUrls(Head(queue).url), anchors \in AnchorSeqs :
        LET page == [url |-> final, anchors |-> anchors]
        IN  /\ results' = Append(results, page)
            /\ queue' = IF AtMaxDepth(Head(queue).depth)
                          THEN Tail(queue)
                          ELSE Discover(Tail(queue), page, Head(queue).depth,
                                        Len(results) + 1, 1)
    /\ UNCHANGED <<settings, cpc, base_host>>
    /\ UNCHANGED notCrawl

\* the loop condition fails: return results
CrawlReturn ==
    /\ cpc = "loop"
    /\ ~LoopCond
    /\ cpc' = "done"
    /\ UNCHANGED <<settings, base_host, visited, results, queue, fetched, dequeued,
                   outcome>>
    /\ UNCHANGED notCrawl

CrawlIdle ==
    /\ settings = [crawler_max_pages |-> 0, crawler_max_depth |-> 0]
    /\ cpc = "idle"
    /\ base_host = ""
    /\ visited = {}
    /\ results = <<>>
    /\ queue = <<>>
    /\ fetched = <<>>
    /\ dequeued = <<>>
    /\ outcome = <<>>

CrawlInit ==
    /\ settings \in [crawler_max_pages : 0..MaxPages, crawler_max_depth : 0..MaxDepth]
    /\ cpc = "idle"
    /\ base_host = ""
    /\ visited = {}
    /\ results = <<>>
    /\ queue = <<>>
    /\ fetched = <<>>
    /\ dequeued = <<>>
    /\ outcome = <<>>
    /\ SelectIdle
    /\ ExtractIdle
    /\ RowIdle
    /\ FromRowIdle /\ RunIdle

CrawlNext ==
    \/ CrawlCall
    \/ LoopSkipVisited
    \/ LoopFetchFail
    \/ LoopFetchOk
    \/ CrawlReturn

SpecCrawl == CrawlInit /\ [][CrawlNext]_vars

\* crawl is sequential code and every fetch returns (the request has a
\* timeout): a step that can be taken is taken
SpecCrawlLive == CrawlInit /\ [][CrawlNext]_vars /\ WF_vars(CrawlNext)

-----------------------------------------------------------------------------
(* Text.  A string is a sequence of tokens (words, host labels); a substring *)
(* is a contiguous run of tokens.  A token "jp:..." stands for the Japanese  *)
(* word it transliterates (jp:kabushikigaisha, jp:otoiawase, ...), which is  *)
(* not made of [a-z0-9].                                                     *)

Range(seq) == { seq[i] : i \in DOMAIN seq }

\* str.lower()
Lower(tok) ==
    CASE tok = "Example" -> "example"
      [] tok = "EXAMPLE" -> "example"
      [] tok = "Acme"    -> "acme"
      [] tok = "Inc."    -> "inc."
      [] tok = "Other"   -> "other"
      [] tok = "About"   -> "about"
      [] tok = "Info"    -> "info"
      [] tok = "Example.co.jp"      -> "example.co.jp"
      [] tok = "Example.co.jp:8080" -> "example.co.jp:8080"
      [] tok = "TRUE"    -> "true"
      [] tok = "Yes"     -> "yes"
      [] OTHER           -> tok

LowerSeq(str) == [i \in DOMAIN str |-> Lower(str[i])]

\* needle in hay
Contains(hay, needle) ==
    \E k \in 0..(Len(hay) - Len(needle)) :
        \A i \in DOMAIN needle : hay[k + i] = needle[i]

\* the tokens made of [a-z0-9] only
AlnumTokens ==
    {"example", "acme", "other", "site", "about", "co", "jp", "go", "com", "www"}

\* the legal-entity tokens _normalize_company_name removes
LegalTokens == {"jp:kabushikigaisha", "jp:yugengaisha", "inc.", "co., ltd."}

\* _normalize_company_name: lower-case, drop the legal-entity tokens, drop
\* everything that is not [a-z0-9]
NormalizeCompanyName(name) ==
    SelectSeq(LowerSeq(name), LAMBDA t : t \notin LegalTokens /\ t \in AlnumTokens)

OFFICIAL_KEYWORDS == {"jp:kaishagaiyo", "jp:kigyojoho", "jp:kigyoannai", "About", "Corporate", "jp:enkaku"}
CONTACT_KEYWORDS ==
    {"contact", "inquiry", "form", "jp:otoiawase", "jp:toiawase", "jp:renraku", "jp:shiryoseikyu"}

\* hostname.endswith(".go.jp")
EndsWithGoJp(hostname) ==
    /\ Len(hostname) >= 3
    /\ hostname[Len(hostname) - 1] = "go"
    /\ hostname[Len(hostname)] = "jp"

-----------------------------------------------------------------------------
(* OfficialSiteSelector.select *)

\* (mutant) scoring without the penalty for governmental hosts
ScoreCandidateNoPenalty(normalized_name, page) ==
      (IF normalized_name # <<>>
            /\ Contains(NormalizeCompanyName(page.hostname), normalized_name)
         THEN 6 ELSE 0)
    + (IF Contains(LowerSeq(page.text), normalized_name) THEN 4 ELSE 0)
    + 2 * Cardinality({k \in OFFICIAL_KEYWORDS : k \in Range(page.text)})
    + (IF \E k \in CONTACT_KEYWORDS : k \in Range(page.text) THEN 1 ELSE 0)

\* (mutant) the governmental suffix adds 2.0 instead of taking it away
ScoreCandidateGoJpBonus(normalized_name, page) ==
      (IF normalized_name # <<>>
            /\ Contains(NormalizeCompanyName(page.hostname), normalized_name)
         THEN 6 ELSE 0)
    + (IF Contains(LowerSeq(page.text), normalized_name) THEN 4 ELSE 0)
    + 2 * Cardinality({k \in OFFICIAL_KEYWORDS : k \in Range(page.text)})
    + (IF \E k \in CONTACT_KEYWORDS : k \in Range(page.text) THEN 1 ELSE 0)
    + (IF EndsWithGoJp(page.hostname) THEN 4 ELSE 0)

\* _score_candidate, in half points (3.0 is 6, 0.5 is 1) to stay in the integers
ScoreCandidate(normalized_name, page) ==
      (IF normalized_name # <<>>
            /\ Contains(NormalizeCompanyName(page.hostname), normalized_name)
         THEN 6 ELSE 0)
    + (IF Contains(LowerSeq(page.text), normalized_name) THEN 4 ELSE 0)
    + 2 * Cardinality({k \in OFFICIAL_KEYWORDS : k \in Range(page.text)})
    + (IF \E k \in CONTACT_KEYWORDS : k \in Range(page.text) THEN 1 ELSE 0)
    - (IF EndsWithGoJp(page.hostname) THEN 4 ELSE 0)

SiteCandidate(idx, page, score) == [idx |-> idx, page |-> page, score |-> score]

\* (mutant) a later candidate with an equal score replaces the best
BetterOrEqual(score, b) == b = None \/ score >= b[1].score

\* best is None or score > best.score
Better(score, b) == b = None \/ score > b[1].score

\* (mutant) a candidate whose fetch failed takes part with a score of 0
ConsiderFailedToo(b, idx, fetch) ==
    LET score == IF fetch = None THEN 0
                 ELSE ScoreCandidate(NormalizeCompanyName(company_name), fetch[1])
    IN  IF Better(score, b) THEN Some(SiteCandidate(idx, fetch, score)) ELSE b

\* the body of the for loop once the page was asked for: a failed fetch
\* (None) leaves best alone, a fetched page is scored and compared
Consider(b, idx, fetch) ==
    IF fetch = None THEN b
    ELSE LET score == ScoreCandidate(NormalizeCompanyName(company_name), fetch[1])
         IN  IF Better(score, b) THEN Some(SiteCandidate(idx, fetch, score)) ELSE b

\* (mutant) a failed fetch ends the loop
AfterFailureBreak(i) == Len(candidates) + 1

\* continue: the loop goes on with the next candidate
AfterFailure(i) == i + 1

CompanyNames ==
    { <<"Example", "jp:kabushikigaisha">>, <<"Acme", "Inc.">>, <<"jp:kabushikigaisha", "jp:sanpuru">> }

SearchResult(url) == [url |-> url]

SearchResults == { SearchResult(""), SearchResult("https://found") }

CandidateSeqs == UNION { [1..k -> SearchResults] : k \in 0..MaxCands }

SelHosts ==
    { <<"example", "co", "jp">>, <<"other", "com">>, <<"example", "go", "jp">> }
SelTexts ==
    { <<"Other", "site">>,
      <<"Example", "jp:kaishagaiyo">>,
      <<"EXAMPLE", "About", "jp:otoiawase">> }

\* the pages PageFetcher.fetch may return for a candidate
SelPages == { [hostname |-> h, text |-> t] : h \in SelHosts, t \in SelTexts }

notSelect == <<crawlVars, extVars, rowVars, fromVars, runVars>>

\* select(company_name, candidates)
SelectCall ==
    /\ spc = "idle"
    /\ company_name' \in CompanyNames
    /\ candidates' \in CandidateSeqs
    /\ sel_i' = 1
    /\ best' = None
    /\ spc' = "loop"
    /\ UNCHANGED sel_log
    /\ UNCHANGED notSelect

\* if not result.url: continue
SelectSkipEmpty ==
    /\ spc = "loop"
    /\ sel_i <= Len(candidates)
    /\ candidates[sel_i].url = ""
    /\ sel_i' = sel_i + 1
    /\ UNCHANGED <<spc, company_name, candidates, best, sel_log>>
    /\ UNCHANGED notSelect

\* the fetch fails: if not page: continue
SelectFetchFail ==
    /\ spc = "loop"
    /\ sel_i <= Len(candidates)
    /\ candidates[sel_i].url # ""
    /\ sel_log' = Append(sel_log, [idx |-> sel_i, page |-> None])
    /\ best' = Consider(best, sel_i, None)
    /\ sel_i' = AfterFailure(sel_i)
    /\ UNCHANGED <<spc, company_name, candidates>>
    /\ UNCHANGED notSelect

\* the fetch succeeds: the page is scored and compared with best
SelectFetchOk ==
    /\ spc = "loop"
    /\ sel_i <= Len(candidates)
    /\ candidates[sel_i].url # ""
    /\ \E page \in SelPages :
        /\ sel_log' = Append(sel_log, [idx |-> sel_i, page |-> Some(page)])
        /\ best' = Consider(best, sel_i, Some(page))
    /\ sel_i' = sel_i + 1
    /\ UNCHANGED <<spc, company_name, candidates>>
    /\ UNCHANGED notSelect

\* return best
SelectReturn ==
    /\ spc = "loop"
    /\ sel_i > Len(candidates)
    /\ spc' = "done"
    /\ UNCHANGED <<company_name, candidates, sel_i, best, sel_log>>
    /\ UNCHANGED notSelect

SelectInit == SelectIdle /\ CrawlIdle /\ ExtractIdle /\ RowIdle /\ FromRowIdle /\ RunIdle

SelectNext ==
    \/ SelectCall
    \/ SelectSkipEmpty
    \/ SelectFetchFail
    \/ SelectFetchOk
    \/ SelectReturn

SpecSelect == SelectInit /\ [][SelectNext]_vars

-----------------------------------------------------------------------------
(* Phone numbers.  A text fragment is a sequence of tokens: words, and the   *)
(* characters of a number one by one.                                        *)

Digits == {"0", "1", "2", "3", "4", "5", "6", "7", "8", "9"}

\* the separators PHONE_PATTERN allows between the groups of a number
Separators == {"-", " "}

\* str.upper(), for the fax marker
Upper(tok) ==
    CASE tok = "Fax" -> "FAX"
      [] tok = "fax" -> "FAX"
      [] tok = "Tel" -> "TEL"
      [] OTHER       -> tok

FAX_MARKERS == {"FAX"}
TEL_MARKERS == {"TEL", "jp:denwa", "Phone", "jp:denwabango"}

\* the phonenumbers library: the calling codes it knows here, with the
\* lengths of a valid national significant number
CountryCode(region) == IF region = "JP" THEN <<"8", "1">> ELSE <<"1">>
ValidLengths(region) == IF region = "JP" THEN {9, 10} ELSE {10}
Regions == {"JP", "US"}

IsPrefix(p, seq) == Len(p) <= Len(seq) /\ SubSeq(seq, 1, Len(p)) = p

\* phonenumbers.parse: None stands for NumberParseException.  A number that
\* starts with "+" carries its calling code; any other is read as a number
\* of the default region, without its national prefix 0.
Parse(digits, region) ==
    IF \E i \in 2..Len(digits) : digits[i] = "+" THEN None
    ELSE IF Len(SelectSeq(digits, LAMBDA c : c \in Digits)) < 3 THEN None
    ELSE IF digits[1] = "+" THEN
        LET rest == Tail(digits)
            rs   == { r \in Regions : IsPrefix(CountryCode(r), rest) }
        IN  IF rs = {} THEN None
            ELSE LET r == CHOOSE r \in rs : TRUE
                 IN  Some([region |-> r,
                           nsn |-> SubSeq(rest, Len(CountryCode(r)) + 1, Len(rest))])
    ELSE Some([region |-> region,
               nsn |-> IF digits[1] = "0" THEN Tail(digits) ELSE digits])

\* phonenumbers.is_valid_number
IsValidNumber(number) ==
    /\ Len(number.nsn) \in ValidLengths(number.region)
    /\ number.nsn[1] # "0"

\* phonenumbers.format_number(parsed, PhoneNumberFormat.E164)
FormatE164(number) == <<"+">> \o CountryCode(number.region) \o number.nsn

\* (mutant) _normalize_phone without the validity check
NormalizePhoneUnchecked(raw) ==
    LET digits == SelectSeq(raw, LAMBDA c : c \in Digits \cup {"+"})
    IN  IF digits = <<>> THEN None
        ELSE LET parsed == Parse(digits, "JP")
             IN  IF parsed = None THEN None ELSE Some(FormatE164(parsed[1]))

\* _normalize_phone
NormalizePhone(raw) ==
    LET digits == SelectSeq(raw, LAMBDA c : c \in Digits \cup {"+"})
    IN  IF digits = <<>> THEN None
        ELSE LET parsed == Parse(digits, "JP")
             IN  IF parsed = None THEN None
                 ELSE IF ~IsValidNumber(parsed[1]) THEN None
                 ELSE Some(FormatE164(parsed[1]))

\* PHONE_PATTERN.findall, fragment by fragment: the run of digits and
\* separators that starts at the first 0 of the fragment (with a +81 or 81
\* just before it, if there is one), cut after thirteen digits; no match
\* when that run holds fewer than six digits.
RECURSIVE RunFrom(_, _, _)
RunFrom(snippet, i, nd) ==
    IF i > Len(snippet) \/ nd >= 13 THEN <<>>
    ELSE IF snippet[i] \in Digits
        THEN <<snippet[i]>> \o RunFrom(snippet, i + 1, nd + 1)
    ELSE IF snippet[i] \in Separators /\ i < Len(snippet) /\ snippet[i + 1] \in Digits
        THEN <<snippet[i]>> \o RunFrom(snippet, i + 1, nd)
    ELSE <<>>

PatternMatches(snippet) ==
    LET zeros == { i \in DOMAIN snippet : snippet[i] = "0" }
    IN  IF zeros = {} THEN <<>>
        ELSE LET z   == CHOOSE i \in zeros : \A j \in zeros : i <= j
                 run == RunFrom(snippet, z, 0)
                 cc  == IF z > 3 /\ SubSeq(snippet, z - 3, z - 1) = <<"+", "8", "1">>
                            THEN <<"+", "8", "1">>
                        ELSE IF z > 2 /\ SubSeq(snippet, z - 2, z - 1) = <<"8", "1">>
                            THEN <<"8", "1">>
                        ELSE <<>>
             IN  IF Len(SelectSeq(run, LAMBDA c : c \in Digits)) < 6 THEN <<>>
                 ELSE <<cc \o run>>

RECURSIVE AllMatches(_, _)
AllMatches(strings, i) ==
    IF i > Len(strings) THEN <<>>
    ELSE PatternMatches(strings[i]) \o AllMatches(strings, i + 1)

HasFaxMarker(snippet) == \E i \in DOMAIN snippet : Upper(snippet[i]) \in FAX_MARKERS
HasTelMarker(snippet) == \E i \in DOMAIN snippet : snippet[i] \in TEL_MARKERS

\* the first loop of _extract_phone_fax, from fragment i on: each valid
\* candidate is assigned to fax or phone
RECURSIVE MarkedScan(_, _, _)
MarkedScan(strings, i, pf) ==
    IF i > Len(strings) THEN pf
    ELSE LET candidate == NormalizePhone(strings[i])
         IN  IF HasFaxMarker(strings[i])
                 THEN MarkedScan(strings, i + 1,
                        IF candidate # None THEN [pf EXCEPT !.fax = candidate] ELSE pf)
             ELSE IF HasTelMarker(strings[i])
                 THEN MarkedScan(strings, i + 1,
                        IF candidate # None THEN [pf EXCEPT !.phone = candidate] ELSE pf)
             ELSE MarkedScan(strings, i + 1, pf)

\* the second loop: the pattern's matches over the whole text, for phone only
RECURSIVE FallbackScan(_, _, _)
FallbackScan(matches, i, pf) ==
    IF i > Len(matches) THEN pf
    ELSE LET normalized == NormalizePhone(matches[i])
         IN  FallbackScan(matches, i + 1,
                IF normalized # None /\ pf.phone = None
                    THEN [pf EXCEPT !.phone = normalized] ELSE pf)

\* _extract_phone_fax
ExtractPhoneFax(strings) ==
    LET pf == MarkedScan(strings, 1, [phone |-> None, fax |-> None])
    IN  IF pf.phone = None \/ pf.fax = None
            THEN FallbackScan(AllMatches(strings, 1), 1, pf)
        ELSE pf

\* text fragments (soup.stripped_strings) a page may hold
TelLine     == <<"TEL", ":", "0", "3", "-", "1", "2", "3", "4", "-", "5", "6", "7", "8">>
TelLine2    == <<"jp:denwa", "0", "6", "-", "1", "1", "1", "1", "-", "2", "2", "2", "2">>
FaxLine     == <<"FAX", ":", "0", "3", "-", "9", "8", "7", "6", "-", "5", "4", "3", "2">>
FaxLineIntl == <<"Fax", "+", "8", "1", "3", "5", "5", "5", "5", "6", "6", "6", "6">>
ShortTel    == <<"TEL", "0", "3", "-", "1", "2">>
BadFax      == <<"FAX", "0", "3", "+", "1", "2", "3", "4", "5", "6", "7", "8">>
UnknownCode == <<"TEL", "+", "9", "9", "9", "1", "2", "3", "4", "5", "6", "7", "8">>
BareNumber  == <<"0", "3", "-", "5", "5", "5", "5", "-", "6", "6", "6", "6">>
BareShort   == <<"0", "1", "2", "-", "3", "4", "5">>
BothOnLine  == TelLine \o <<" ">> \o FaxLine
Greeting    == <<"jp:otoiawase">>

-----------------------------------------------------------------------------
(* Emails.  An address is its local part (a sequence of tokens) and its      *)
(* domain.                                                                   *)

Email(local, domain) == [local |-> local, domain |-> domain]

\* email.lower()
LowerEmail(e) == Email(LowerSeq(e.local), Lower(e.domain))

\* _is_email: EMAIL_PATTERN.fullmatch; an address without a domain fails
IsEmail(e) == e.local # <<>> /\ e.domain # ""

ROLE_EMAIL_KEYWORDS ==
    {"info", "sales", "support", "contact", "inquiry", "customer", "hello",
     "pr", "press", "ir"}

\* _is_role_email: a role keyword occurs in the local part once "-" and "_"
\* are removed
IsRoleEmail(e) ==
    LET normalized == LowerSeq(SelectSeq(e.local, LAMBDA t : t \notin {"-", "_"}))
    IN  \E i \in DOMAIN normalized : normalized[i] \in ROLE_EMAIL_KEYWORDS

\* the local parts of the model in alphabetical order, for sorted()
LocalOrder ==
    << <<"abe">>, <<"contact">>, <<"info">>, <<"inquiry">>, <<"sales">>,
       <<"support">>, <<"taro">>, <<"web", "_", "info">> >>

\* sorted(set(...)) of addresses of one domain
SortedEmails(set) ==
    LET locals == SelectSeq(LocalOrder, LAMBDA l : \E e \in set : e.local = l)
    IN  [i \in DOMAIN locals |-> CHOOSE e \in set : e.local = locals[i]]

\* (mutant) the addresses are neither validated nor lower-cased
ExtractEmailsUnvalidated(page) ==
    SortedEmails(Range(page.mailtos) \cup Range(page.text_emails))

\* _extract_emails_from_page: the mailto: anchors and the matches of
\* EMAIL_PATTERN in the text, valid ones only, lower-cased, as a sorted list
ExtractEmailsFromPage(page) ==
    SortedEmails({ LowerEmail(e) :
        e \in { x \in Range(page.mailtos) \cup Range(page.text_emails) : IsEmail(x) } })

\* (mutant) guesses for the four prefixes other than inquiry
GuessRoleEmailsFour(domain) ==
    IF Lower(domain) = "" THEN <<>>
    ELSE << Email(<<"info">>, Lower(domain)), Email(<<"contact">>, Lower(domain)),
            Email(<<"sales">>, Lower(domain)), Email(<<"support">>, Lower(domain)) >>

\* _guess_role_emails
GuessRoleEmails(domain) ==
    IF Lower(domain) = "" THEN <<>>
    ELSE << Email(<<"info">>, Lower(domain)), Email(<<"contact">>, Lower(domain)),
            Email(<<"sales">>, Lower(domain)), Email(<<"support">>, Lower(domain)),
            Email(<<"inquiry">>, Lower(domain)) >>

-----------------------------------------------------------------------------
(* extract_contact_info *)

\* (mutant) the last such anchor of the page instead of the first
FindContactLinkLast(page) ==
    LET hits == { i \in DOMAIN page.anchors :
                    page.anchors[i].textKw \/ HrefHasContactKeyword(page.anchors[i].href) }
    IN  IF hits = {} THEN None
        ELSE Some(UrlJoin(page.url,
                          page.anchors[CHOOSE i \in hits : \A j \in hits : j <= i].href))

\* _find_contact_link: the first anchor whose text or href holds a contact
\* keyword, resolved against the page's URL
FindContactLink(page) ==
    LET hits == { i \in DOMAIN page.anchors :
                    page.anchors[i].textKw \/ HrefHasContactKeyword(page.anchors[i].href) }
    IN  IF hits = {} THEN None
        ELSE Some(UrlJoin(page.url,
                          page.anchors[CHOOSE i \in hits : \A j \in hits : i <= j].href))

\* SNS_PATTERNS: the platforms whose pattern occurs in a lower-cased URL
SnsKeys == {"sns_linkedin", "sns_x", "sns_instagram", "sns_facebook"}

SnsMatch(key, url) ==
    CASE key = "sns_linkedin" ->
            url.host \in {"www.linkedin.com", "linkedin.com"}
                /\ url.path \in {"/company/example", "/in/taro"}
      [] key = "sns_x" -> url.host \in {"twitter.com", "x.com"}
      [] key = "sns_instagram" -> url.host \in {"instagram.com", "www.instagram.com"}
      [] key = "sns_facebook" -> url.host \in {"facebook.com", "www.facebook.com", "fb.me"}

\* _extract_sns_links: for each platform the URL of the last anchor that
\* matches one of its patterns (results[key] is assigned anchor by anchor)
ExtractSnsLinks(page) ==
    LET hit(key) == { i \in DOMAIN page.anchors :
                        SnsMatch(key, UrlJoin(page.url, page.anchors[i].href)) }
        keys == { key \in SnsKeys : hit(key) # {} }
    IN  [key \in keys |->
            UrlJoin(page.url,
                    page.anchors[CHOOSE i \in hit(key) : \A j \in hit(key) : j <= i].href)]

\* (mutant) a later page's link replaces the platform's entry
MergeSnsOverwrite(sns, links) ==
    [key \in DOMAIN sns \cup DOMAIN links |->
        IF key \in DOMAIN links THEN links[key] ELSE sns[key]]

\* the for loop over sns_links.items(): a platform already set is kept
MergeSns(sns, links) ==
    [key \in DOMAIN sns \cup DOMAIN links |->
        IF key \in DOMAIN sns THEN sns[key] ELSE links[key]]

\* (mutant) the fallback takes email_main over although it is set
EmailMainAfterGuessAlways(email_main, guessed) ==
    IF guessed # <<>> THEN Some(guessed[1]) ELSE email_main

\* if guessed and not extraction.email_main: extraction.email_main = guessed[0]
EmailMainAfterGuess(email_main, guessed) ==
    IF guessed # <<>> /\ email_main = None THEN Some(guessed[1]) ELSE email_main

\* anchors of the pages handed to the extractor
LinkedIn  == Anchor(Url("https", "www.linkedin.com", "/company/example", ""), FALSE)
XLink     == Anchor(Url("https", "x.com", "/example", ""), FALSE)
Twitter   == Anchor(Url("https", "twitter.com", "/example", ""), FALSE)

ExtAnchorSeqs ==
    { <<>>,
      <<About, Contact, LinkedIn, XLink>>,
      <<AboutText, AboutForm, Twitter, XLink>>,
      <<XLink, Twitter>> }

InfoAt    == Email(<<"info">>, "example.co.jp")
InfoUpper == Email(<<"Info">>, "Example.co.jp")
SupportAt == Email(<<"support">>, "example.co.jp")
TaroAt    == Email(<<"taro">>, "example.co.jp")
AbeAt     == Email(<<"abe">>, "example.co.jp")
NoDomain  == Email(<<"info">>, "")

\* the addresses of a page: in its mailto: anchors and in its text
EmailFacets ==
    { [mailtos |-> <<>>, text_emails |-> <<>>],
      [mailtos |-> <<NoDomain>>, text_emails |-> <<TaroAt, AbeAt>>],
      [mailtos |-> <<InfoUpper>>, text_emails |-> <<InfoAt, AbeAt>>],
      [mailtos |-> <<>>, text_emails |-> <<SupportAt>>] }

StringSeqs ==
    { <<Greeting>>,
      <<TelLine, FaxLine>>,
      <<ShortTel, BadFax, UnknownCode, BareShort>>,
      <<FaxLineIntl, FaxLine, BareNumber, TelLine2>>,
      <<BothOnLine>> }

\* the URL of the k-th page of a crawl
PagePaths == <<"/", "/contact", "/about", "/news">>
PageUrlAt(k) == Url("https", BaseHost, PagePaths[k], "")

Body(a, e, t) ==
    [anchors |-> a, mailtos |-> e.mailtos, text_emails |-> e.text_emails,
     strings |-> t]

NoEmails == [mailtos |-> <<>>, text_emails |-> <<>>]

\* the pages of the model: pages that hold anchors only, addresses only or
\* numbers only, and two pages that hold all three
PageBodies ==
    { Body(a, NoEmails, <<Greeting>>) : a \in ExtAnchorSeqs }
    \cup { Body(<<>>, e, <<Greeting>>) : e \in EmailFacets }
    \cup { Body(<<>>, NoEmails, t) : t \in StringSeqs }
    \cup { Body(<<About, Contact, LinkedIn, XLink>>,
                [mailtos |-> <<InfoUpper>>, text_emails |-> <<InfoAt, AbeAt>>],
                <<TelLine, FaxLine>>),
           Body(<<AboutText, AboutForm, Twitter, XLink>>,
                [mailtos |-> <<>>, text_emails |-> <<SupportAt>>],
                <<FaxLineIntl, FaxLine, BareNumber, TelLine2>>) }

PageAt(k, body) ==
    [url |-> PageUrlAt(k), anchors |-> body.anchors, mailtos |-> body.mailtos,
     text_emails |-> body.text_emails, strings |-> body.strings]

PageSeqs ==
    UNION { { [k \in 1..n |-> PageAt(k, bodies[k])] : bodies \in [1..n -> PageBodies] }
            : n \in 0..MaxExtPages }

\* the official URLs handed in as base_url
ExtBaseUrls ==
    { Url("https", "example.co.jp", "/", ""),
      Url("https", "www.example.co.jp", "/", ""),
      Url("https", "Example.co.jp:8080", "/", "") }

notExtract == <<crawlVars, selVars, rowVars, fromVars, runVars>>

\* extract_contact_info(pages, base_url)
ExtractCall ==
    /\ epc = "idle"
    /\ ext_pages' \in PageSeqs
    /\ ext_base' \in ExtBaseUrls
    /\ ext_k' = 1
    /\ extraction' = EmptyExtraction
    /\ evidence' = {}
    /\ epc' = "scan"
    /\ UNCHANGED notExtract

\* one iteration of "for page in pages"
ScanPage ==
    /\ epc = "scan"
    /\ ext_k <= Len(ext_pages)
    /\ LET page        == ext_pages[ext_k]
           link        == IF extraction.contact_form_url = None
                            THEN FindContactLink(page) ELSE None
           emails      == ExtractEmailsFromPage(page)
           role_emails == SelectSeq(emails, IsRoleEmail)
           pf          == ExtractPhoneFax(page.strings)
           sns_links   == ExtractSnsLinks(page)
           new_sns     == DOMAIN sns_links \ DOMAIN extraction.sns
       IN  /\ extraction' =
                [extraction EXCEPT
                    !.contact_form_url = IF link # None THEN link ELSE @,
                    !.email_main =
                        IF role_emails # <<>> /\ @ = None THEN Some(role_emails[1])
                        ELSE IF role_emails = <<>> /\ emails # <<>> /\ @ = None
                            THEN Some(emails[1])
                        ELSE @,
                    !.email_role_based = @ \o role_emails,
                    !.phone_main = IF pf.phone # None /\ @ = None THEN pf.phone ELSE @,
                    !.fax_main = IF pf.fax # None /\ @ = None THEN pf.fax ELSE @,
                    !.sns = MergeSns(@, sns_links)]
           /\ evidence' = evidence
                \cup (IF link # None THEN {link[1]} ELSE {})
                \cup (IF emails # <<>> THEN {page.url} ELSE {})
                \cup (IF pf.phone # None /\ extraction.phone_main = None
                        THEN {page.url} ELSE {})
                \cup (IF pf.fax # None /\ extraction.fax_main = None
                        THEN {page.url} ELSE {})
                \cup { sns_links[key] : key \in new_sns }
    /\ ext_k' = ext_k + 1
    /\ UNCHANGED <<epc, ext_pages, ext_base>>
    /\ UNCHANGED notExtract

\* after the loop: the guesses when no role-based address was found, then
\* the sorted, de-duplicated lists
ExtractReturn ==
    /\ epc = "scan"
    /\ ext_k > Len(ext_pages)
    /\ LET guessed == IF extraction.email_role_based = <<>>
                        THEN GuessRoleEmails(ext_base.host) ELSE <<>>
           all     == evidence \cup Range(guessed)
       IN  /\ extraction' =
                [extraction EXCEPT
                    !.email_guessed = SortedEmails(Range(@ \o guessed)),
                    !.email_main = EmailMainAfterGuess(@, guessed),
                    !.email_role_based = SortedEmails(Range(@)),
                    !.evidence_sources = all]
           /\ evidence' = all
    /\ epc' = "done"
    /\ UNCHANGED <<ext_pages, ext_base, ext_k>>
    /\ UNCHANGED notExtract

ExtractInit == ExtractIdle /\ CrawlIdle /\ SelectIdle /\ RowIdle /\ FromRowIdle /\ RunIdle

ExtractNext ==
    \/ ExtractCall
    \/ ScanPage
    \/ ExtractReturn

SpecExtract == ExtractInit /\ [][ExtractNext]_vars

-----------------------------------------------------------------------------
(* LeadProcessor.process_row *)

STATUS_OK     == "ok"
STATUS_REVIEW == "needs_review"
STATUS_ERROR  == "error"

\* SHEET_COLUMNS
SHEET_COLUMNS ==
    {"company_name", "resolved_domain", "website_url", "contact_form_url",
     "email_main", "email_role_based", "email_guessed", "phone_main", "fax_main",
     "sns_linkedin", "sns_x", "sns_instagram", "sns_facebook", "evidence_sources",
     "business_summary", "business_bullets", "recent_news", "competitors_hint",
     "last_checked_at", "lock_manual_override", "status", "error_detail"}

REPORT_FIELDS ==
    {"business_summary", "business_bullets", "recent_news", "competitors_hint"}

\* value or "": an update value is None or Some(value), an empty list
\* counting as None
OrEmpty(v) == IF v = None THEN "" ELSE v[1]

ListValue(list) == IF list = <<>> THEN None ELSE Some(list)

\* CompanyRow.to_update_payload: the fields that are sheet columns, None as
\* "", and last_checked_at (the time of the call) unless it is given
ToUpdatePayload(upd) ==
    [f \in (DOMAIN upd \cap SHEET_COLUMNS) \cup {"last_checked_at"} |->
        IF f \in DOMAIN upd THEN OrEmpty(upd[f]) ELSE "now"]

\* pick_best_domain: tldextract's domain and suffix
PickBestDomain(url) ==
    IF Lower(url.host) \in {"example.co.jp", "www.example.co.jp", "example.co.jp:8080"}
        THEN "example.co.jp" ELSE Lower(url.host)

\* the messages of the exceptions process_row may catch
ERR_NO_SITE == "official site not found"
ERR_SEARCH  == "search failed"
ERR_REPORT  == "report generation failed"

\* the review reasons of _prepare_updates
REASON_NO_REPORT == "no report: OPENAI_API_KEY not set"
REASON_NO_EMAIL  == "no email address"
REASON_NO_PHONE  == "no phone number"

\* (mutant) the except block flags the row for review
ErrorUpdatesAsReview(message) ==
    ToUpdatePayload([f \in {"status", "error_detail"} |->
        IF f = "status" THEN Some(STATUS_REVIEW) ELSE Some(message)])

\* the except block's error_updates
ErrorUpdates(message) ==
    ToUpdatePayload([f \in {"status", "error_detail"} |->
        IF f = "status" THEN Some(STATUS_ERROR) ELSE Some(message)])

\* the review_reasons of _prepare_updates
ReviewReasons(ext, report) ==
    (IF report = None THEN <<REASON_NO_REPORT>> ELSE <<>>)
    \o (IF ext.email_main = None THEN <<REASON_NO_EMAIL>> ELSE <<>>)
    \o (IF ext.phone_main = None THEN <<REASON_NO_PHONE>> ELSE <<>>)

SnsOf(ext, key) == IF key \in DOMAIN ext.sns THEN Some(ext.sns[key]) ELSE None

\* _prepare_updates
PrepareUpdates(official_url, resolved_domain, ext, report) ==
    LET reasons == ReviewReasons(ext, report)
        base == [f \in SHEET_COLUMNS \ (REPORT_FIELDS \cup
                        {"company_name", "last_checked_at", "lock_manual_override"}) |->
            CASE f = "resolved_domain"  -> Some(resolved_domain)
              [] f = "website_url"      -> Some(official_url)
              [] f = "contact_form_url" -> ext.contact_form_url
              [] f = "email_main"       -> ext.email_main
              [] f = "email_role_based" -> ListValue(ext.email_role_based)
              [] f = "email_guessed"    -> ListValue(ext.email_guessed)
              [] f = "phone_main"       -> ext.phone_main
              [] f = "fax_main"         -> ext.fax_main
              [] f = "evidence_sources" -> Some(ext.evidence_sources \cup {official_url})
              [] f = "status"           ->
                    Some(IF reasons # <<>> THEN STATUS_REVIEW ELSE STATUS_OK)
              [] f = "error_detail"     -> ListValue(reasons)
              [] OTHER                  -> SnsOf(ext, f)]
        full == [f \in DOMAIN base \cup (IF report # None THEN REPORT_FIELDS ELSE {}) |->
                    IF f \in DOMAIN base THEN base[f] ELSE report]
    IN  ToUpdatePayload(full)

\* the pages SiteCrawler.crawl may hand back
RowPageSeqs ==
    UNION { { [k \in 1..n |-> PageAt(k, bodies[k])] : bodies \in [1..n -> PageBodies] }
            : n \in 0..MaxRowPages }

\* (mutant) the row store is written whatever dry_run says
StoreCallsAlways(dry_run) == <<"update_row", "append_log">>

\* if not self.settings.dry_run: sheets.update_row(...); sheets.append_log(...)
StoreCalls(dry_run) ==
    IF dry_run THEN <<>> ELSE <<"update_row", "append_log">>

notRow == <<crawlVars, selVars, extVars, fromVars, runVars>>

\* process_row(row): the try block up to the search
RowStart ==
    /\ rpc = "idle"
    /\ logs' = <<"start">>
    /\ rpc' = "search"
    /\ UNCHANGED <<row_cfg, row_site, row_pages, row_report, row_exc, updates, calls, writes>>
    /\ UNCHANGED notRow

\* _search_official_site raises RuntimeError
RowSearchFail ==
    /\ rpc = "search"
    /\ calls' = Append(calls, "search")
    /\ row_exc' = Some(ERR_SEARCH)
    /\ rpc' = "except"
    /\ UNCHANGED <<row_cfg, row_site, row_pages, row_report, updates, logs, writes>>
    /\ UNCHANGED notRow

RowSearchOk ==
    /\ rpc = "search"
    /\ calls' = Append(calls, "search")
    /\ logs' = Append(logs, "search")
    /\ rpc' = "select"
    /\ UNCHANGED <<row_cfg, row_site, row_pages, row_report, row_exc, updates, writes>>
    /\ UNCHANGED notRow

\* selector.select returns None: RuntimeError
RowSelectNone ==
    /\ rpc = "select"
    /\ calls' = Append(calls, "select")
    /\ row_exc' = Some(ERR_NO_SITE)
    /\ rpc' = "except"
    /\ UNCHANGED <<row_cfg, row_site, row_pages, row_report, updates, logs, writes>>
    /\ UNCHANGED notRow

\* selector.select returns a candidate: official_url = candidate.page.url
RowSelectSome ==
    /\ rpc = "select"
    /\ calls' = Append(calls, "select")
    /\ \E official_url \in ExtBaseUrls : row_site' = Some(official_url)
    /\ logs' = Append(logs, "official_site")
    /\ rpc' = "crawl"
    /\ UNCHANGED <<row_cfg, row_pages, row_report, row_exc, updates, writes>>
    /\ UNCHANGED notRow

\* pages = self.crawler.crawl(official_url)
RowCrawl ==
    /\ rpc = "crawl"
    /\ calls' = Append(calls, "crawl")
    /\ row_pages' \in RowPageSeqs
    /\ rpc' = "extract"
    /\ UNCHANGED <<row_cfg, row_site, row_report, row_exc, updates, logs, writes>>
    /\ UNCHANGED notRow

\* extraction = extract_contact_info(pages, official_url): the call
RowExtract ==
    /\ rpc = "extract"
    /\ calls' = Append(calls, "extract")
    /\ ext_pages' = row_pages
    /\ ext_base' = row_site[1]
    /\ ext_k' = 1
    /\ extraction' = EmptyExtraction
    /\ evidence' = {}
    /\ epc' = "scan"
    /\ rpc' = "extracting"
    /\ UNCHANGED <<row_cfg, row_site, row_pages, row_report, row_exc, updates, logs, writes>>
    /\ UNCHANGED <<crawlVars, selVars, fromVars, runVars>>

\* extract_contact_info has returned; without a report generator the
\* report stays None
RowExtracted ==
    /\ rpc = "extracting"
    /\ epc = "done"
    /\ logs' = Append(logs, "extract")
    /\ rpc' = IF row_cfg.report_generator THEN "news" ELSE "prepare"
    /\ UNCHANGED <<row_cfg, row_site, row_pages, row_report, row_exc, updates, calls, writes>>
    /\ UNCHANGED notRow

\* _search_official_news: a SearchClientError gives an empty list
RowNews ==
    /\ rpc = "news"
    /\ \E failed \in BOOLEAN :
        calls' = Append(calls, IF failed THEN "news-failed" ELSE "news")
    /\ rpc' = "report"
    /\ UNCHANGED <<row_cfg, row_site, row_pages, row_report, row_exc, updates, logs, writes>>
    /\ UNCHANGED notRow

\* report_generator.generate raises
RowReportFail ==
    /\ rpc = "report"
    /\ calls' = Append(calls, "report")
    /\ row_exc' = Some(ERR_REPORT)
    /\ rpc' = "except"
    /\ UNCHANGED <<row_cfg, row_site, row_pages, row_report, updates, logs, writes>>
    /\ UNCHANGED notRow

RowReportOk ==
    /\ rpc = "report"
    /\ calls' = Append(calls, "report")
    /\ row_report' = Some("report")
    /\ logs' = Append(logs, "report")
    /\ rpc' = "prepare"
    /\ UNCHANGED <<row_cfg, row_site, row_pages, row_exc, updates, writes>>
    /\ UNCHANGED notRow

\* _prepare_updates, the closing log entry, the writes unless dry_run, return
RowComplete ==
    /\ rpc = "prepare"
    /\ LET upd == PrepareUpdates(row_site[1], PickBestDomain(row_site[1]),
                                 extraction, row_report)
       IN  /\ updates' = upd
           /\ logs' = Append(logs, IF upd["status"] = STATUS_ERROR
                                     THEN "error" ELSE "complete")
    /\ writes' = writes \o StoreCalls(row_cfg.dry_run)
    /\ rpc' = "done"
    /\ UNCHANGED <<row_cfg, row_site, row_pages, row_report, row_exc, calls>>
    /\ UNCHANGED notRow

\* the except block: error_updates, the writes unless dry_run, return
RowExcept ==
    /\ rpc = "except"
    /\ updates' = ErrorUpdates(row_exc[1])
    /\ logs' = IF row_cfg.dry_run THEN logs ELSE Append(logs, "exception")
    /\ writes' = writes \o StoreCalls(row_cfg.dry_run)
    /\ rpc' = "done"
    /\ UNCHANGED <<row_cfg, row_site, row_pages, row_report, row_exc, calls>>
    /\ UNCHANGED notRow

\* LeadProcessor.__post_init__: the settings and whether a report generator
\* could be built
RowInit ==
    /\ rpc = "idle"
    /\ row_cfg \in [dry_run : BOOLEAN, report_generator : BOOLEAN]
    /\ row_site = None
    /\ row_pages = <<>>
    /\ row_report = None
    /\ row_exc = None
    /\ updates = NoUpdates
    /\ logs = <<>>
    /\ calls = <<>>
    /\ writes = <<>>
    /\ CrawlIdle /\ SelectIdle /\ ExtractIdle /\ FromRowIdle /\ RunIdle

RowNext ==
    \/ RowStart
    \/ RowSearchFail
    \/ RowSearchOk
    \/ RowSelectNone
    \/ RowSelectSome
    \/ RowCrawl
    \/ RowExtract
    \/ ScanPage
    \/ ExtractReturn
    \/ RowExtracted
    \/ RowNews
    \/ RowReportFail
    \/ RowReportOk
    \/ RowComplete
    \/ RowExcept

SpecRow == RowInit /\ [][RowNext]_vars

-----------------------------------------------------------------------------
(* CompanyRow.from_row.  A cell is a string; " x " stands for x with blanks  *)
(* around it.                                                                *)

\* list(SHEET_COLUMNS.keys()): the columns A to V in order
SheetColumnOrder ==
    << "company_name", "resolved_domain", "website_url", "contact_form_url",
       "email_main", "email_role_based", "email_guessed", "phone_main", "fax_main",
       "sns_linkedin", "sns_x", "sns_instagram", "sns_facebook", "evidence_sources",
       "business_summary", "business_bullets", "recent_news", "competitors_hint",
       "last_checked_at", "lock_manual_override", "status", "error_detail" >>

\* str.strip()
Strip(cell) ==
    CASE cell = " acme.jp " -> "acme.jp"
      [] cell = "  "        -> ""
      [] cell = " Yes "     -> "Yes"
      [] OTHER              -> cell

\* the cells a sheet row may hold
Cells == {"Acme Inc", " acme.jp ", "", "  ", "TRUE", " Yes ", "no"}

Patterns == UNION { [1..n -> Cells] : n \in 1..MaxPattern }

\* the rows handed to from_row: n cells that repeat a pattern, from the
\* empty row to a row with one cell more than there are columns
RowValues ==
    { [i \in 1..n |-> pat[((i - 1) % Len(pat)) + 1]] :
        n \in 0..(Len(SheetColumnOrder) + 1), pat \in Patterns }

\* list[i]: the element, or IndexError
ListGet(list, i) == IF i \in DOMAIN list THEN <<"ok", list[i]>> ELSE <<"IndexError">>

\* [x] * n: no element when n is not positive
Repeat(x, n) == IF n > 0 THEN [i \in 1..n |-> x] ELSE <<>>

\* (mutant) the padding is put in front of the values
FullRowPadFront(values) ==
    Repeat(None, Len(SheetColumnOrder) - Len(values))
    \o [i \in DOMAIN values |-> Some(values[i])]

\* full_row = list(values) + [None] * (len(SHEET_COLUMNS) - len(values)); a
\* negative count gives no padding
FullRow(values) ==
    [i \in DOMAIN values |-> Some(values[i])]
    \o Repeat(None, Len(SheetColumnOrder) - Len(values))

\* data: mapping[i]: full_row[i] if i < len(full_row) else None
Data(values) ==
    LET full_row == FullRow(values)
    IN  [i \in DOMAIN SheetColumnOrder |->
            IF i <= Len(full_row) THEN ListGet(full_row, i) ELSE <<"ok", None>>]

\* _clean: None stays None, a string is stripped and None if nothing is left
Clean(value) ==
    IF value = None THEN None
    ELSE IF Strip(value[1]) = "" THEN None ELSE Some(Strip(value[1]))

\* lock_value.strip().lower() in {"true", "1", "yes"}
IsLocked(value) ==
    LET lock_value == IF value = None \/ value[1] = "" THEN "" ELSE value[1]
    IN  Lower(Strip(lock_value)) \in {"true", "1", "yes"}

\* cls(...): the fields of the CompanyRow
FromRow(row_index, values) ==
    LET data == Data(values)
        get(column) == data[CHOOSE i \in DOMAIN SheetColumnOrder :
                                SheetColumnOrder[i] = column][2]
    IN  [f \in Range(SheetColumnOrder) \cup {"row_index"} |->
            CASE f = "row_index"            -> row_index
              [] f = "company_name"         ->
                    IF Clean(get(f)) = None THEN "" ELSE Clean(get(f))[1]
              [] f = "lock_manual_override" -> IsLocked(get(f))
              [] OTHER                      -> Clean(get(f))]

\* from_row(row_index, row_values): the CompanyRow, or the error of a failed
\* list access
FromRowCall ==
    /\ fpc = "idle"
    /\ IF \E i \in DOMAIN SheetColumnOrder : Data(row_values)[i] = <<"IndexError">>
        THEN /\ fpc' = "raised"
             /\ UNCHANGED company_row
        ELSE /\ fpc' = "done"
             /\ company_row' = FromRow(1, row_values)
    /\ UNCHANGED row_values
    /\ UNCHANGED <<crawlVars, selVars, extVars, rowVars, runVars>>

FromRowInit ==
    /\ fpc = "idle"
    /\ row_values \in RowValues
    /\ company_row = <<>>
    /\ CrawlIdle /\ SelectIdle /\ ExtractIdle /\ RowIdle /\ RunIdle

FromRowNext == FromRowCall

SpecFromRow == FromRowInit /\ [][FromRowNext]_vars

-----------------------------------------------------------------------------
(* cli.run, its three entry points, and LeadProcessor.process_sheet.  A row  *)
(* of the sheet is the CompanyRow from_row makes of it, reduced to the       *)
(* fields the entry points read; process_row is reduced to the updates it    *)
(* returns and the update_row it makes.                                      *)

MaxRows == 2

STATUS_PENDING == "pending"

\* the rows a sheet may hold
SheetRow(name, lock, status) ==
    [company_name |-> name, lock_manual_override |-> lock, status |-> status]

NewRow     == SheetRow("acme", FALSE, "")
PendingRow == SheetRow("beta", FALSE, STATUS_PENDING)
ReviewRow  == SheetRow("beta", FALSE, STATUS_REVIEW)
ErrorRow   == SheetRow("gamma", FALSE, STATUS_ERROR)
OkRow      == SheetRow("gamma", FALSE, STATUS_OK)
LockedRow  == SheetRow("acme", TRUE, "")
BlankRow   == SheetRow("", FALSE, "")

SheetRows == {NewRow, PendingRow, ReviewRow, ErrorRow, OkRow, LockedRow, BlankRow}

Sheets == UNION { [1..n -> SheetRows] : n \in 0..MaxRows }

\* the options of run; limit and force matter to the whole-sheet run only
RunOptions ==
    { o \in [row_number : {None} \cup { Some(n) : n \in 1..(MaxRows + 2) },
              company : {None, Some("acme"), Some("zeta")},
              limit : {None, Some(0), Some(1), Some(2)},
              force : BOOLEAN, dry_run : BOOLEAN, env_dry_run : BOOLEAN] :
        /\ (o.row_number # None \/ o.company # None) => (o.limit = None /\ ~o.force)
        /\ (o.row_number # None) => o.company # Some("acme") }

\* settings = get_settings(); if dry_run: settings = replace(settings, dry_run=True)
DryRun == opts.env_dry_run \/ opts.dry_run

\* SheetsClient.fetch_rows(start_row): row_index = start_row - 1 + offset
FetchRows(start_row) ==
    IF Len(sheet) >= start_row - 1
        THEN [k \in 1..(Len(sheet) - (start_row - 2)) |->
                [row_index |-> start_row - 2 + k, row |-> sheet[start_row - 2 + k]]]
        ELSE <<>>

\* matches = [row for row in rows if row.company_name == company]
Matches(rs, company) ==
    LET idx == { i \in DOMAIN rs : rs[i].row.company_name = company }
        F[i \in 0..Len(rs)] ==
            IF i = 0 THEN <<>>
            ELSE IF i \in idx THEN Append(F[i - 1], rs[i]) ELSE F[i - 1]
    IN  F[Len(rs)]

\* the updates process_row may return (see PrepareUpdates, ErrorUpdates)
RunResults ==
    { PrepareUpdates(u, PickBestDomain(u), EmptyExtraction, None) : u \in ExtBaseUrls }
    \cup { ErrorUpdates(e) : e \in {ERR_NO_SITE, ERR_SEARCH} }

\* SheetsClient.update_row: the columns of the batchUpdate
UpdateRowFields(upd) ==
    { k \in DOMAIN upd : k \in SHEET_COLUMNS /\ k # "lock_manual_override" }

\* process_row(row) as the entry points see it: the outcome, and the
\* update_row unless dry_run
ProcessRow(r, upd) ==
    /\ outcomes' = Append(outcomes, [row_index |-> r.row_index, status |-> upd["status"]])
    /\ batch' = IF "update_row" \in Range(StoreCalls(DryRun)) /\ UpdateRowFields(upd) # {}
                    THEN Append(batch, [row_index |-> r.row_index,
                                        fields |-> UpdateRowFields(upd)])
                    ELSE batch

\* process_sheet: if not row.company_name: continue
Unnamed(r) == r.row.company_name = ""

\* process_sheet: if row.lock_manual_override: continue
Locked(r) == r.row.lock_manual_override

\* process_sheet: the status filter
StatusDone(r, force) ==
    /\ ~force
    /\ r.row.status # ""
    /\ r.row.status \notin {STATUS_PENDING, STATUS_REVIEW, STATUS_ERROR}

\* (mutant) the limit is noticed one outcome late
LimitReachedLate(n, limit) ==
    limit # None /\ limit[1] # 0 /\ n > limit[1]

\* process_sheet: if limit and len(outcomes) >= limit: break
LimitReached(n, limit) ==
    limit # None /\ limit[1] # 0 /\ n >= limit[1]

notRun == <<crawlVars, selVars, extVars, rowVars, fromVars>>

\* _process_single_row: a row number below 2 raises BadParameter
RunSingleBad ==
    /\ run_pc = "idle"
    /\ opts.row_number # None
    /\ opts.row_number[1] < 2
    /\ run_pc' = "bad_parameter"
    /\ UNCHANGED <<opts, sheet, rows, run_i, outcomes, batch>>
    /\ UNCHANGED notRun

\* _process_single_row: no data at that row
RunSingleEmpty ==
    /\ run_pc = "idle"
    /\ opts.row_number # None
    /\ opts.row_number[1] >= 2
    /\ FetchRows(opts.row_number[1]) = <<>>
    /\ rows' = <<>>
    /\ run_pc' = "done"
    /\ UNCHANGED <<opts, sheet, run_i, outcomes, batch>>
    /\ UNCHANGED notRun

\* _process_single_row: process_row(rows[0])
RunSingleRow ==
    /\ run_pc = "idle"
    /\ opts.row_number # None
    /\ opts.row_number[1] >= 2
    /\ FetchRows(opts.row_number[1]) # <<>>
    /\ rows' = FetchRows(opts.row_number[1])
    /\ \E upd \in RunResults : ProcessRow(rows'[1], upd)
    /\ run_pc' = "done"
    /\ UNCHANGED <<opts, sheet, run_i>>
    /\ UNCHANGED notRun

\* _process_by_company: no row of that name, Exit(code=1)
RunCompanyMissing ==
    /\ run_pc = "idle"
    /\ opts.row_number = None
    /\ opts.company # None
    /\ Matches(FetchRows(2), opts.company[1]) = <<>>
    /\ rows' = FetchRows(2)
    /\ run_pc' = "exit_1"
    /\ UNCHANGED <<opts, sheet, run_i, outcomes, batch>>
    /\ UNCHANGED notRun

\* _process_by_company: process_row(matches[0])
RunCompanyRow ==
    /\ run_pc = "idle"
    /\ opts.row_number = None
    /\ opts.company # None
    /\ Matches(FetchRows(2), opts.company[1]) # <<>>
    /\ rows' = FetchRows(2)
    /\ \E upd \in RunResults : ProcessRow(Matches(rows', opts.company[1])[1], upd)
    /\ run_pc' = "done"
    /\ UNCHANGED <<opts, sheet, run_i>>
    /\ UNCHANGED notRun

\* process_sheet(force, limit): rows = self.sheets.fetch_rows()
RunSheet ==
    /\ run_pc = "idle"
    /\ opts.row_number = None
    /\ opts.company = None
    /\ rows' = FetchRows(2)
    /\ run_i' = 1
    /\ run_pc' = "loop"
    /\ UNCHANGED <<opts, sheet, outcomes, batch>>
    /\ UNCHANGED notRun

SheetSkipUnnamed ==
    /\ run_pc = "loop"
    /\ run_i <= Len(rows)
    /\ Unnamed(rows[run_i])
    /\ run_i' = run_i + 1
    /\ UNCHANGED <<run_pc, opts, sheet, rows, outcomes, batch>>
    /\ UNCHANGED notRun

SheetSkipLocked ==
    /\ run_pc = "loop"
    /\ run_i <= Len(rows)
    /\ ~Unnamed(rows[run_i])
    /\ Locked(rows[run_i])
    /\ run_i' = run_i + 1
    /\ UNCHANGED <<run_pc, opts, sheet, rows, outcomes, batch>>
    /\ UNCHANGED notRun

SheetSkipStatus ==
    /\ run_pc = "loop"
    /\ run_i <= Len(rows)
    /\ ~Unnamed(rows[run_i])
    /\ ~Locked(rows[run_i])
    /\ StatusDone(rows[run_i], opts.force)
    /\ run_i' = run_i + 1
    /\ UNCHANGED <<run_pc, opts, sheet, rows, outcomes, batch>>
    /\ UNCHANGED notRun

\* outcome = self.process_row(row); outcomes.append(outcome); the limit
SheetProcess ==
    /\ run_pc = "loop"
    /\ run_i <= Len(rows)
    /\ ~Unnamed(rows[run_i])
    /\ ~Locked(rows[run_i])
    /\ ~StatusDone(rows[run_i], opts.force)
    /\ \E upd \in RunResults : ProcessRow(rows[run_i], upd)
    /\ run_i' = run_i + 1
    /\ run_pc' = IF LimitReached(Len(outcomes'), opts.limit) THEN "done" ELSE "loop"
    /\ UNCHANGED <<opts, sheet, rows>>
    /\ UNCHANGED notRun

\* the for loop has run out of rows: return outcomes
SheetReturn ==
    /\ run_pc = "loop"
    /\ run_i > Len(rows)
    /\ run_pc' = "done"
    /\ UNCHANGED <<opts, sheet, rows, run_i, outcomes, batch>>
    /\ UNCHANGED notRun

RunInit ==
    /\ run_pc = "idle"
    /\ opts \in RunOptions
    /\ sheet \in Sheets
    /\ rows = <<>>
    /\ run_i = 1
    /\ outcomes = <<>>
    /\ batch = <<>>
    /\ CrawlIdle /\ SelectIdle /\ ExtractIdle /\ RowIdle /\ FromRowIdle

RunNext ==
    \/ RunSingleBad
    \/ RunSingleEmpty
    \/ RunSingleRow
    \/ RunCompanyMissing
    \/ RunCompanyRow
    \/ RunSheet
    \/ SheetSkipUnnamed
    \/ SheetSkipLocked
    \/ SheetSkipStatus
    \/ SheetProcess
    \/ SheetReturn

SpecRun == RunInit /\ [][RunNext]_vars

-----------------------------------------------------------------------------
(* Properties of SiteCrawler.crawl *)

\* the URL with its fragment removed, as the claims speak of it
WithoutFragment(url) == Url(url.scheme, url.host, url.path, "")

\* the anchor a queue entry was discovered from (src > 0: not the start URL)
AnchorOf(e) == results[e.src].anchors[e.pos]

\* C1: crawl never holds, and so never returns, more pages than
\* crawler_max_pages; with a limit of 0 it returns no page.
C1_PageLimit ==
    /\ Len(results) <= settings.crawler_max_pages
    /\ (cpc = "done" /\ settings.crawler_max_pages = 0 => results = <<>>)

\* the limit was reached and cut the crawl short: links were still queued
C1_Witness ==
    /\ cpc = "done"
    /\ settings.crawler_max_pages >= 2
    /\ Len(results) = settings.crawler_max_pages
    /\ queue # <<>>

\* C2: within one run no URL-without-fragment is handed to the fetcher twice.
C2_NoRefetch ==
    \A i, j \in DOMAIN fetched :
        i # j => WithoutFragment(fetched[i]) # WithoutFragment(fetched[j])

\* the same page was dequeued twice, under two different fragments, and
\* fetched once
C2_Witness ==
    \E i, j \in DOMAIN dequeued :
        /\ i < j
        /\ dequeued[i].url # dequeued[j].url
        /\ WithoutFragment(dequeued[i].url) = WithoutFragment(dequeued[j].url)
        /\ Cardinality({k \in DOMAIN fetched :
               WithoutFragment(fetched[k]) = WithoutFragment(dequeued[i].url)}) = 1

\* every link of the source page of dequeued[j] that satisfies Marked has
\* left the queue before position j
MarkedFirst(j, Marked(_)) ==
    LET n == dequeued[j]
    IN  /\ \A k \in DOMAIN queue :
              ~(queue[k].src = n.src /\ Marked(queue[k]))
        /\ \A i \in DOMAIN dequeued :
              i > j => ~(dequeued[i].src = n.src /\ Marked(dequeued[i]))

TextKw(e) == AnchorOf(e).textKw
HrefKw(e) == HrefHasContactKeyword(AnchorOf(e).href)

\* C6 as stated: a link whose anchor text holds a contact keyword is dequeued
\* before every link of the same source page whose text holds none.
C6_TextKeywordFirst ==
    \A j \in DOMAIN dequeued :
        dequeued[j].src > 0 /\ ~TextKw(dequeued[j]) => MarkedFirst(j, TextKw)

\* C6 amended: a link whose href holds a contact keyword is dequeued before
\* every link of the same source page whose href holds none.
C6_HrefKeywordFirst ==
    \A j \in DOMAIN dequeued :
        dequeued[j].src > 0 /\ ~HrefKw(dequeued[j]) => MarkedFirst(j, HrefKw)

\* a keyword link overtook a plain link that precedes it in the document
C6_Witness ==
    \E i, j \in DOMAIN dequeued :
        /\ i < j
        /\ dequeued[i].src = dequeued[j].src
        /\ dequeued[i].src > 0
        /\ HrefKw(dequeued[i]) /\ ~HrefKw(dequeued[j])
        /\ dequeued[i].pos > dequeued[j].pos

-----------------------------------------------------------------------------
(* Properties of OfficialSiteSelector.select *)

\* the fetches that returned a page, as positions of sel_log
FetchedOk == { k \in DOMAIN sel_log : sel_log[k].page # None }

ScoreOf(k) ==
    ScoreCandidate(NormalizeCompanyName(company_name), sel_log[k].page[1])

\* the fetched candidates no other fetched candidate outscores
TopScored == { k \in FetchedOk : \A m \in FetchedOk : ScoreOf(m) <= ScoreOf(k) }

\* C3: select returns the fetched candidate with the highest score, and among
\* several with that score the first in input order.
C3_HighestFirst ==
    spc = "done" /\ FetchedOk # {} =>
        /\ best # None
        /\ \E k \in TopScored :
            /\ \A m \in TopScored : sel_log[k].idx <= sel_log[m].idx
            /\ best[1].idx = sel_log[k].idx
            /\ best[1].page = sel_log[k].page
            /\ best[1].score = ScoreOf(k)

\* two candidates tie for the highest score after a lower-scored one, and the
\* first of the two is returned
C3_Witness ==
    /\ spc = "done"
    /\ \E k0, k1, k2 \in FetchedOk :
        /\ k0 < k1 /\ k1 < k2
        /\ ScoreOf(k0) < ScoreOf(k1)
        /\ ScoreOf(k1) = ScoreOf(k2)
        /\ k1 \in TopScored
        /\ best # None
        /\ best[1].idx = sel_log[k1].idx

\* C4: when no candidate is fetched successfully, select returns None.
C4_NoneWhenNothingFetched ==
    spc = "done" /\ FetchedOk = {} => best = None

\* candidates with empty URLs and failed fetches only, and None is returned
C4_Witness ==
    /\ spc = "done"
    /\ FetchedOk = {}
    /\ sel_log # <<>>
    /\ \E i \in DOMAIN candidates : candidates[i].url = ""
    /\ best = None

\* the indexes below n of the candidates with a non-empty URL, in input order
NonEmptyBelow(n) ==
    SelectSeq([i \in 1..(n - 1) |-> i], LAMBDA i : candidates[i].url # "")

\* C5: whatever the earlier fetches gave, the candidates with a non-empty URL
\* are fetched once each, in input order, up to the loop's position (all of
\* them at the return), and the candidate returned is one whose fetch
\* returned a page.
C5_FailureDoesNotAbort ==
    /\ spc \in {"loop", "done"} =>
           [k \in DOMAIN sel_log |-> sel_log[k].idx] = NonEmptyBelow(sel_i)
    /\ spc = "done" => sel_i = Len(candidates) + 1
    /\ best # None =>
           /\ best[1].page # None
           /\ \E k \in FetchedOk : /\ sel_log[k].idx = best[1].idx
                                   /\ sel_log[k].page = best[1].page

\* a fetch failed, a later candidate was fetched and is the one returned
C5_Witness ==
    /\ spc = "done"
    /\ \E k1, k2 \in DOMAIN sel_log :
        /\ k1 < k2
        /\ sel_log[k1].page = None
        /\ sel_log[k2].page # None
        /\ best # None
        /\ best[1].idx = sel_log[k2].idx

-----------------------------------------------------------------------------
(* Properties of extract_contact_info *)

\* a number in the canonical international form: "+", a calling code and a
\* national significant number of a valid length
IsCanonicalE164(n) ==
    /\ Len(n) >= 2
    /\ n[1] = "+"
    /\ \A i \in 2..Len(n) : n[i] \in Digits
    /\ \E r \in Regions :
        /\ IsPrefix(CountryCode(r), Tail(n))
        /\ (Len(n) - 1 - Len(CountryCode(r))) \in ValidLengths(r)
        /\ n[Len(CountryCode(r)) + 2] # "0"

\* C9: phone_main and fax_main are each unset or a valid number in E.164
\* form, at every point of the extraction; invalid candidates leave them unset.
C9_PhonesCanonical ==
    /\ extraction.phone_main # None => IsCanonicalE164(extraction.phone_main[1])
    /\ extraction.fax_main # None => IsCanonicalE164(extraction.fax_main[1])

\* the first page held only malformed candidates, which were dropped, and a
\* later page gave valid numbers
C9_Witness ==
    /\ epc = "done"
    /\ Len(ext_pages) = 2
    /\ ShortTel \in Range(ext_pages[1].strings)
    /\ BadFax \in Range(ext_pages[1].strings)
    /\ extraction.phone_main = NormalizePhone(TelLine)
    /\ extraction.fax_main = NormalizePhone(FaxLine)

\* the valid addresses that occur on the pages, lower-cased
ObservedEmails ==
    UNION { { LowerEmail(e) :
                e \in { x \in Range(ext_pages[k].mailtos)
                              \cup Range(ext_pages[k].text_emails) : IsEmail(x) } }
            : k \in DOMAIN ext_pages }

GuessOn(prefix) == Email(<<prefix>>, Lower(ext_base.host))

FiveGuesses ==
    { GuessOn(prefix) : prefix \in {"info", "contact", "sales", "support", "inquiry"} }

-----------------------------------------------------------------------------
(* Properties of LeadProcessor.process_row *)

\* the selector was asked and returned None
SelectedNone == "select" \in Range(calls) /\ row_site = None

DownstreamCalls == {"crawl", "extract", "news", "news-failed", "report"}

SITE_FIELDS ==
    {"resolved_domain", "website_url", "contact_form_url", "email_main",
     "email_role_based", "email_guessed", "phone_main", "fax_main", "sns_linkedin",
     "sns_x", "sns_instagram", "sns_facebook", "evidence_sources"}

\* C7: once the selector has returned None the crawler, the extractor, the
\* news search and the report generator are never invoked, and the row's
\* update at the return has status error, a non-empty error detail, and no
\* website, contact or report field.
C7_NoSiteIsTerminalError ==
    SelectedNone =>
        /\ Range(calls) \cap DownstreamCalls = {}
        /\ rpc \in {"except", "done"}
        /\ rpc = "done" =>
            /\ updates["status"] = STATUS_ERROR
            /\ updates["error_detail"] = ERR_NO_SITE
            /\ DOMAIN updates \cap (SITE_FIELDS \cup REPORT_FIELDS) = {}
            /\ row_cfg.dry_run => writes = <<>>
            /\ ~row_cfg.dry_run => writes = <<"update_row", "append_log">>

C7_Witness ==
    /\ rpc = "done"
    /\ SelectedNone
    /\ row_cfg.report_generator
    /\ writes = <<"update_row", "append_log">>
    /\ updates["status"] = STATUS_ERROR

\* no valid address occurs on any page handed to the extractor
NoEmailObserved == ObservedEmails = {}

\* a site was selected, the extraction ran, and it found no phone or
\* observed no address
DegradedExtraction ==
    /\ row_site # None
    /\ epc = "done"
    /\ extraction.phone_main = None \/ NoEmailObserved

\* C8: at the return of a row on which nothing raised, a site was selected
\* and the extraction found no phone or observed no address (it only
\* guessed), the status is needs_review.
C8_DegradedNeedsReview ==
    (rpc = "done" /\ row_exc = None /\ DegradedExtraction) =>
        updates["status"] = STATUS_REVIEW

-----------------------------------------------------------------------------
(* Properties of extract_contact_info: which match wins *)

\* the valid addresses of page k, lower-cased
ObservedOn(k) ==
    { LowerEmail(e) :
        e \in { x \in Range(ext_pages[k].mailtos) \cup Range(ext_pages[k].text_emails) :
                    IsEmail(x) } }

\* C11: at the return of a two-page crawl on which info@ was found on the
\* first page and support@ on the second, email_guessed is not empty.
C11_GuessedBesideRoleEmails ==
    (/\ epc = "done"
     /\ Len(ext_pages) = 2
     /\ InfoAt \in ObservedOn(1)
     /\ SupportAt \in ObservedOn(2)) =>
        extraction.email_guessed # <<>>

\* the anchors of a page whose visible text or href holds a contact keyword
KeywordAnchors(page) ==
    { i \in DOMAIN page.anchors :
        page.anchors[i].textKw \/ HrefHasContactKeyword(page.anchors[i].href) }

Least(S) == CHOOSE i \in S : \A j \in S : i <= j

\* the pages scanned so far
Scanned == 1..(ext_k - 1)

\* C12: during and after the scan, contact_form_url is unset if no page
\* scanned so far has an anchor whose text or href holds a contact keyword,
\* and otherwise is the absolute URL of the first such anchor of the first
\* such page: a later page does not replace it.
C12_FirstContactLink ==
    epc \in {"scan", "done"} =>
        LET having == { k \in Scanned : KeywordAnchors(ext_pages[k]) # {} }
        IN  IF having = {} THEN extraction.contact_form_url = None
            ELSE LET page == ext_pages[Least(having)]
                 IN  extraction.contact_form_url =
                        Some(UrlJoin(page.url,
                                     page.anchors[Least(KeywordAnchors(page))].href))

C12_Witness ==
    /\ epc = "done"
    /\ Len(ext_pages) = 2
    /\ Cardinality(KeywordAnchors(ext_pages[1])) >= 2
    /\ KeywordAnchors(ext_pages[2]) # {}
    /\ extraction.contact_form_url # None
    /\ \A i \in KeywordAnchors(ext_pages[2]) :
            extraction.contact_form_url[1] # UrlJoin(ext_pages[2].url, ext_pages[2].anchors[i].href)

\* the fragments of the crawl, as <<page, fragment>>, that carry a marker
\* and normalize to a valid number
ValidFaxFragments ==
    { kf \in UNION { {<<k, i>> : i \in DOMAIN ext_pages[k].strings} : k \in DOMAIN ext_pages } :
        /\ HasFaxMarker(ext_pages[kf[1]].strings[kf[2]])
        /\ NormalizePhone(ext_pages[kf[1]].strings[kf[2]]) # None }

ValidTelFragments ==
    { kf \in UNION { {<<k, i>> : i \in DOMAIN ext_pages[k].strings} : k \in DOMAIN ext_pages } :
        /\ ~HasFaxMarker(ext_pages[kf[1]].strings[kf[2]])
        /\ HasTelMarker(ext_pages[kf[1]].strings[kf[2]])
        /\ NormalizePhone(ext_pages[kf[1]].strings[kf[2]]) # None }

\* page order, then the order within the page
Before(a, b) == a[1] < b[1] \/ (a[1] = b[1] /\ a[2] <= b[2])

First(S) == CHOOSE a \in S : \A b \in S : Before(a, b)

\* C13: at the return, fax_main is the normalized first valid fax-marked
\* fragment of the crawl (unset if there is none), and phone_main is the
\* normalized first valid phone-marked fragment if there is one.
C13_FirstMarkedFragmentWins ==
    epc = "done" =>
        /\ IF ValidFaxFragments = {} THEN extraction.fax_main = None
           ELSE LET kf == First(ValidFaxFragments)
                IN  extraction.fax_main = NormalizePhone(ext_pages[kf[1]].strings[kf[2]])
        /\ ValidTelFragments # {} =>
                LET kf == First(ValidTelFragments)
                IN  extraction.phone_main = NormalizePhone(ext_pages[kf[1]].strings[kf[2]])

\* the anchors of the crawl, as <<page, anchor>>, that match a platform
SnsAnchors(key) ==
    { ka \in UNION { {<<k, i>> : i \in DOMAIN ext_pages[k].anchors} : k \in DOMAIN ext_pages } :
        SnsMatch(key, UrlJoin(ext_pages[ka[1]].url, ext_pages[ka[1]].anchors[ka[2]].href)) }

\* C14: at the return the keys of sns are among the four platforms, and a
\* platform's entry is the URL of the first matching anchor of the crawl
\* (absent if there is none).
C14_FirstSnsAnchorWins ==
    epc = "done" =>
        /\ DOMAIN extraction.sns \subseteq SnsKeys
        /\ \A key \in SnsKeys :
            IF SnsAnchors(key) = {} THEN key \notin DOMAIN extraction.sns
            ELSE LET ka == First(SnsAnchors(key))
                 IN  /\ key \in DOMAIN extraction.sns
                     /\ extraction.sns[key] =
                            UrlJoin(ext_pages[ka[1]].url, ext_pages[ka[1]].anchors[ka[2]].href)

\* C15: at the return email_main is unset, or one of the addresses observed
\* on the pages (in the lower-cased form the extractor collects), or one of
\* the addresses of email_guessed.
C15_EmailMainFromKnown ==
    epc = "done" =>
        \/ extraction.email_main = None
        \/ extraction.email_main[1] \in ObservedEmails \cup Range(extraction.email_guessed)

C15_Witness ==
    /\ epc = "done"
    /\ extraction.email_main # None
    /\ extraction.email_main[1] \in ObservedEmails
    /\ extraction.email_guessed # <<>>
    /\ extraction.email_main[1] \notin Range(extraction.email_guessed)
    /\ \E k \in DOMAIN ext_pages : NoDomain \in Range(ext_pages[k].mailtos)

\* page k supplied a fact of the result: the contact-form link, an address,
\* the phone or the fax number, or a platform's link
Contributed(k) ==
    LET page == ext_pages[k]
        earlier == 1..(k - 1)
    IN  \/ /\ KeywordAnchors(page) # {}
           /\ \A j \in earlier : KeywordAnchors(ext_pages[j]) = {}
        \/ ObservedOn(k) # {}
        \/ /\ ExtractPhoneFax(page.strings).phone # None
           /\ \A j \in earlier : ExtractPhoneFax(ext_pages[j].strings).phone = None
        \/ /\ ExtractPhoneFax(page.strings).fax # None
           /\ \A j \in earlier : ExtractPhoneFax(ext_pages[j].strings).fax = None
        \/ \E key \in SnsKeys :
                /\ \E ka \in SnsAnchors(key) : ka[1] = k
                /\ \A ka \in SnsAnchors(key) : ka[1] >= k

\* C16: at the return the evidence set holds the URL of every page that
\* supplied a fact, and everything in it other than the guessed addresses
\* is the URL of such a page.
C16_EvidenceIsContributingPages ==
    epc = "done" =>
        /\ \A k \in DOMAIN ext_pages :
                Contributed(k) => ext_pages[k].url \in extraction.evidence_sources
        /\ \A u \in extraction.evidence_sources \ Range(extraction.email_guessed) :
                \E k \in DOMAIN ext_pages : Contributed(k) /\ u = ext_pages[k].url

\* C18: at the return every guessed address is on the registrable domain of
\* the official URL.
C18_GuessesOnRegistrableDomain ==
    epc = "done" =>
        \A e \in Range(extraction.email_guessed) : e.domain = PickBestDomain(ext_base)

-----------------------------------------------------------------------------
(* Properties of OfficialSiteSelector._score_candidate *)

\* the scoring inputs of the k-th fetch other than the host's suffix: the
\* name in the hostname, the name in the text, the official terms, the
\* contact keywords
OtherInputs(k) ==
    LET page == sel_log[k].page[1]
        name == NormalizeCompanyName(company_name)
    IN  << name # <<>> /\ Contains(NormalizeCompanyName(page.hostname), name),
           Contains(LowerSeq(page.text), name),
           {w \in OFFICIAL_KEYWORDS : w \in Range(page.text)},
           \E w \in CONTACT_KEYWORDS : w \in Range(page.text) >>

GoJp(k) == EndsWithGoJp(sel_log[k].page[1].hostname)

\* C17: of two fetched candidates with equal other scoring inputs, the one
\* on a .go.jp host does not have the higher score.
C17_GoJpNeverOutscores ==
    \A g, c \in FetchedOk :
        (GoJp(g) /\ ~GoJp(c) /\ OtherInputs(g) = OtherInputs(c)) =>
            ScoreOf(g) <= ScoreOf(c)

\* a .go.jp candidate comes first, an otherwise equal commercial one whose
\* hostname also holds the name comes later and is returned
C17_Witness ==
    /\ spc = "done"
    /\ \E g, c \in FetchedOk :
        /\ g < c
        /\ GoJp(g) /\ ~GoJp(c)
        /\ OtherInputs(g) = OtherInputs(c)
        /\ OtherInputs(g)[1]
        /\ ScoreOf(g) < ScoreOf(c)
        /\ best # None
        /\ best[1].idx = sel_log[c].idx

-----------------------------------------------------------------------------
(* Termination of SiteCrawler.crawl *)

\* the queue is empty or the page limit is reached
LoopExhausted == queue = <<>> \/ Len(results) >= settings.crawler_max_pages

\* C20: a crawl that has started returns, whatever the pages link to and
\* whichever fetches fail, and once the queue is empty or the number of
\* collected pages has reached the limit its next step is the return.
C20_CrawlTerminates ==
    /\ (cpc = "loop") ~> (cpc = "done")
    /\ [][(cpc = "loop" /\ LoopExhausted) => cpc' = "done"]_vars

\* a crawl with failed fetches that returned at the page limit with links
\* still queued
C20_Witness ==
    /\ cpc = "done"
    /\ queue # <<>>
    /\ settings.crawler_max_pages >= 2
    /\ Len(results) = settings.crawler_max_pages
    /\ Len(fetched) > Len(results)
    /\ \E i \in DOMAIN dequeued : dequeued[i].depth = 2

-----------------------------------------------------------------------------
(* Properties of CompanyRow.from_row *)

ColumnAt(i) == SheetColumnOrder[i]

\* the field a supplied cell gives: stripped; for company_name as it is,
\* for the lock flag read as a truth value, otherwise None when blank
FieldOfCell(column, cell) ==
    CASE column = "company_name"         -> company_row[column] = Strip(cell)
      [] column = "lock_manual_override" ->
            company_row[column] = (Lower(Strip(cell)) \in {"true", "1", "yes"})
      [] OTHER                           ->
            company_row[column] = (IF Strip(cell) = "" THEN None ELSE Some(Strip(cell)))

\* the field of a column the row has no cell for
FieldOfMissing(column) ==
    CASE column = "company_name"         -> company_row[column] = ""
      [] column = "lock_manual_override" -> company_row[column] = FALSE
      [] OTHER                           -> company_row[column] = None

\* C19: from_row raises no error, and for a row with fewer cells than
\* columns the i-th cell gives the field of the i-th column while every
\* column without a cell is None (company_name "", the lock flag False).
C19_ShortRowAccepted ==
    /\ fpc # "raised"
    /\ (fpc = "done" /\ Len(row_values) < Len(SheetColumnOrder)) =>
        \A i \in DOMAIN SheetColumnOrder :
            IF i <= Len(row_values) THEN FieldOfCell(ColumnAt(i), row_values[i])
            ELSE FieldOfMissing(ColumnAt(i))

\* the row of the test: three cells, the second with blanks around it
C19_Witness ==
    /\ fpc = "done"
    /\ row_values = <<"Acme Inc", " acme.jp ", "Acme Inc">>
    /\ company_row["company_name"] = "Acme Inc"
    /\ company_row["resolved_domain"] = Some("acme.jp")
    /\ company_row["status"] = None
    /\ ~company_row["lock_manual_override"]

-----------------------------------------------------------------------------
(* Properties of extract_contact_info: the steps of the scan *)

\* the valid addresses of a page in the order the page is scanned: the
\* mailto: anchors, then the text, lower-cased
ScanOrder(page) ==
    LET all == page.mailtos \o page.text_emails
        valid == SelectSeq(all, IsEmail)
    IN  [i \in DOMAIN valid |-> LowerEmail(valid[i])]

\* C21: in the scan of one page, if the page has role-based addresses the
\* first of them in scan order becomes email_main unless it is set already
\* and all of them join the role-based list; otherwise the page's first
\* address in scan order becomes email_main if it is still unset.
C21_FirstInScanOrder ==
    [][(epc = "scan" /\ ext_k' = ext_k + 1) =>
        LET scan == ScanOrder(ext_pages[ext_k])
            role == SelectSeq(scan, IsRoleEmail)
        IN  IF role # <<>>
            THEN /\ extraction.email_main = None =>
                        extraction'.email_main = Some(role[1])
                 /\ Range(extraction'.email_role_based) =
                        Range(extraction.email_role_based) \cup Range(role)
            ELSE (scan # <<>> /\ extraction.email_main = None) =>
                        extraction'.email_main = Some(scan[1])]_vars

\* the fields of the result that hold one optional value
SingleFields == {"contact_form_url", "email_main", "phone_main", "fax_main"}

\* C22: in every step of a running extraction (a scanned page or the guess
\* fallback) a set contact_form_url, email_main, phone_main, fax_main or
\* platform entry keeps its value, and no address leaves the role-based list.
C22_AssignOnce ==
    [][epc = "scan" =>
        /\ \A f \in SingleFields :
                extraction[f] # None => extraction'[f] = extraction[f]
        /\ \A key \in DOMAIN extraction.sns :
                /\ key \in DOMAIN extraction'.sns
                /\ extraction'.sns[key] = extraction.sns[key]
        /\ Range(extraction.email_role_based) \subseteq Range(extraction'.email_role_based)]_vars

\* the second page offers another phone number, another contact link and
\* another address than the ones the first page set
C22_Witness ==
    /\ epc = "done"
    /\ Len(ext_pages) = 2
    /\ ExtractPhoneFax(ext_pages[1].strings).phone # None
    /\ ExtractPhoneFax(ext_pages[2].strings).phone # None
    /\ ExtractPhoneFax(ext_pages[2].strings).phone # extraction.phone_main
    /\ KeywordAnchors(ext_pages[1]) # {}
    /\ KeywordAnchors(ext_pages[2]) # {}
    /\ FindContactLink(ext_pages[2]) # extraction.contact_form_url
    /\ ScanOrder(ext_pages[1]) # <<>>
    /\ ScanOrder(ext_pages[2]) # <<>>
    /\ extraction.email_main[1] \notin Range(ScanOrder(ext_pages[2]))

-----------------------------------------------------------------------------
(* Properties of SiteCrawler.crawl: depth, hosts, failed fetches, order *)

AllEntries == Range(queue) \cup Range(dequeued)

\* the number of pages in results once the i-th popped entry was handled
OkCount(i) == Cardinality({ j \in 1..i : outcome[j] = "ok" })

\* the popped entries whose fetch gave the s-th page of results
FetchOf(s) == { i \in DOMAIN dequeued : outcome[i] = "ok" /\ OkCount(i) = s }

\* C23: every queued or popped entry has a depth from 0 to
\* crawler_max_depth; an entry other than the start URL was found on a page
\* fetched one level above it, below the maximum depth; with a maximum depth
\* of 0 nothing but the start URL is queued or fetched.
C23_DepthBound ==
    /\ \A e \in AllEntries :
        /\ e.depth \in 0..settings.crawler_max_depth
        /\ e.src > 0 =>
            \A i \in FetchOf(e.src) :
                /\ dequeued[i].depth = e.depth - 1
                /\ dequeued[i].depth < settings.crawler_max_depth
    /\ settings.crawler_max_depth = 0 =>
        /\ Len(fetched) <= 1
        /\ \A e \in AllEntries : e.src = 0

\* a page fetched at the maximum depth links to a page of the site that was
\* never visited, and the crawl ended with an empty queue below the page limit
C23_Witness ==
    /\ cpc = "done"
    /\ settings.crawler_max_depth >= 1
    /\ queue = <<>>
    /\ Len(results) < settings.crawler_max_pages
    /\ \E i \in DOMAIN dequeued :
        /\ outcome[i] = "ok"
        /\ dequeued[i].depth = settings.crawler_max_depth
        /\ \E a \in Range(results[OkCount(i)].anchors) :
            LET abs_url == UrlJoin(results[OkCount(i)].url, a.href)
            IN  /\ abs_url.host = base_host
                /\ abs_url.scheme = "https"
                /\ NormalizeUrl(abs_url) \notin visited

\* C24: every entry other than the start URL, and every URL fetched after
\* it, has scheme http or https and the network location of the start URL.
C24_SameHostOnly ==
    /\ \A e \in AllEntries :
        /\ e.src = 0 => e.url.host = base_host
        /\ e.src > 0 => e.url.scheme \in {"http", "https"} /\ e.url.host = base_host
    /\ \A i \in DOMAIN fetched :
        fetched[i].scheme \in {"http", "https"} /\ fetched[i].host = base_host

\* the start page was redirected to another host and links to /news by an
\* absolute URL; the news page links to a subdomain, a mailto: address and
\* another host only
C24_Witness ==
    /\ cpc = "done"
    /\ settings.crawler_max_depth = 2
    /\ Len(results) = 2
    /\ results[1].url.host = OtherHost
    /\ results[1].anchors = <<NewsAbs, AboutText>>
    /\ results[2].anchors = <<SubContact, MailTo, OffSite>>
    /\ Len(dequeued) = 2
    /\ queue = <<>>

\* C25: the pages of results are the successful fetches, in fetch order; a
\* URL whose fetch failed stays visited and every later entry for it is
\* skipped; and crawl returns only when the queue is empty or the page limit
\* is reached.
C25_FailedFetchSkipped ==
    /\ Len(results) = OkCount(Len(outcome))
    /\ Len(fetched) = Cardinality({ i \in DOMAIN outcome : outcome[i] # "skipped" })
    /\ \A i \in DOMAIN outcome :
        /\ outcome[i] = "ok" => results[OkCount(i)].url \in FinalUrls(dequeued[i].url)
        /\ outcome[i] = "failed" =>
            /\ NormalizeUrl(dequeued[i].url) \in visited
            /\ \A j \in DOMAIN outcome :
                (j > i /\ NormalizeUrl(dequeued[j].url) = NormalizeUrl(dequeued[i].url))
                    => outcome[j] = "skipped"
    /\ cpc = "done" => LoopExhausted

\* a fetch failed, a later entry for the same URL was skipped, pages were
\* fetched after the failure, and more URLs were fetched than the page limit
C25_Witness ==
    /\ cpc = "done"
    /\ Len(fetched) > settings.crawler_max_pages
    /\ Len(results) = settings.crawler_max_pages
    /\ \E i, j, k \in DOMAIN outcome :
        /\ i < j /\ i < k
        /\ outcome[i] = "failed"
        /\ outcome[j] = "skipped"
        /\ NormalizeUrl(dequeued[j].url) = NormalizeUrl(dequeued[i].url)
        /\ outcome[k] = "ok"

\* the anchors of a page that crawl keeps and pushes to the front
KeptKeywordLinks(page) ==
    { p \in DOMAIN page.anchors :
        LET abs_url == UrlJoin(page.url, page.anchors[p].href)
        IN  /\ abs_url.scheme \in {"http", "https"}
            /\ abs_url.host = base_host
            /\ HrefHasContactKeyword(page.anchors[p].href) }

Greatest(S) == CHOOSE p \in S : \A q \in S : q <= p

\* C30: for a page fetched below the maximum depth that has kept keyword
\* links, the entry popped next is its last such link; its keyword links are
\* popped in the reverse of their document order; and an entry that was in
\* the queue before is popped only after all of them.
C30_KeywordLinksReversed ==
    \A i \in DOMAIN dequeued :
        (outcome[i] = "ok" /\ dequeued[i].depth < settings.crawler_max_depth) =>
            LET s  == OkCount(i)
                kw == KeptKeywordLinks(results[s])
                link(m) == dequeued[m].src = s /\ dequeued[m].pos \in kw
            IN  kw # {} =>
                /\ (i + 1) \in DOMAIN dequeued =>
                        dequeued[i + 1].src = s /\ dequeued[i + 1].pos = Greatest(kw)
                /\ \A a, b \in DOMAIN dequeued :
                        (a < b /\ link(a) /\ link(b)) => dequeued[a].pos > dequeued[b].pos
                /\ \A j \in DOMAIN dequeued :
                        (j > i /\ dequeued[j].src < s) =>
                            \A p \in kw : \E m \in (i + 1)..(j - 1) :
                                dequeued[m].src = s /\ dequeued[m].pos = p

\* a page below the start page had two keyword links; both were popped, the
\* later one first, and after them an entry queued before
C30_Witness ==
    /\ cpc = "done"
    /\ \E i, a, b, j \in DOMAIN dequeued :
        /\ outcome[i] = "ok"
        /\ OkCount(i) >= 2
        /\ Cardinality(KeptKeywordLinks(results[OkCount(i)])) >= 2
        /\ i < a /\ a < b /\ b < j
        /\ dequeued[a].src = OkCount(i) /\ dequeued[b].src = OkCount(i)
        /\ dequeued[a].pos \in KeptKeywordLinks(results[OkCount(i)])
        /\ dequeued[b].pos \in KeptKeywordLinks(results[OkCount(i)])
        /\ dequeued[a].pos > dequeued[b].pos
        /\ dequeued[j].src < OkCount(i)

-----------------------------------------------------------------------------
(* Properties of LeadProcessor.process_row: dry run and failures             *)

\* the updates process_row computes from what it has gathered
ComputedUpdates ==
    IF row_exc # None THEN ErrorUpdates(row_exc[1])
    ELSE PrepareUpdates(row_site[1], PickBestDomain(row_site[1]), extraction, row_report)

\* C27: with dry_run set, process_row never calls update_row or append_log
\* on the row store, on the success path and on every failure path, and the
\* outcome it returns still carries the computed updates.
C27_DryRunWritesNothing ==
    row_cfg.dry_run =>
        /\ writes = <<>>
        /\ rpc = "done" => updates = ComputedUpdates /\ "status" \in DOMAIN updates

\* a dry run that went through search, selection, crawl and extraction of a
\* page with an e-mail address and returned its updates
C27_Witness ==
    /\ row_cfg.dry_run
    /\ rpc = "done"
    /\ row_exc = None
    /\ extraction.email_main # None
    /\ updates["email_main"] = extraction.email_main[1]
    /\ writes = <<>>

-----------------------------------------------------------------------------
(* Properties of cli.run and LeadProcessor.process_sheet                     *)

\* run took the whole-sheet entry point
WholeSheet == opts.row_number = None /\ opts.company = None

\* the rows process_sheet may process
Eligible(r) ==
    /\ r.company_name # ""
    /\ ~r.lock_manual_override
    /\ opts.force \/ r.status \in {"", STATUS_PENDING, STATUS_REVIEW, STATUS_ERROR}

\* C26: a row whose lock_manual_override flag is set is never processed
\* and never written, through any entry point (whole-sheet run,
\* --row-number, --company), and no update writes the
\* lock_manual_override column of any row.
C26_LockedNeverTouched ==
    /\ \A i \in DOMAIN outcomes : ~sheet[outcomes[i].row_index].lock_manual_override
    /\ \A i \in DOMAIN batch :
            /\ ~sheet[batch[i].row_index].lock_manual_override
            /\ "lock_manual_override" \notin batch[i].fields

\* C28: process_sheet processes rows in sheet order, and only rows with a
\* non-empty company name that are not locked and whose status is empty,
\* pending, needs_review or error (any status with force); with a positive
\* limit it returns at most limit outcomes and processes no row once the
\* limit is reached.
C28_SheetOrderFilterLimit ==
    WholeSheet =>
        /\ \A i, j \in DOMAIN outcomes :
                i < j => outcomes[i].row_index < outcomes[j].row_index
        /\ \A i \in DOMAIN outcomes : Eligible(sheet[outcomes[i].row_index])
        /\ \A i \in DOMAIN outcomes : \A k \in 1..(outcomes[i].row_index - 1) :
                Eligible(sheet[k]) => \E j \in 1..(i - 1) : outcomes[j].row_index = k
        /\ (opts.limit # None /\ opts.limit[1] > 0) =>
                /\ Len(outcomes) <= opts.limit[1]
                /\ Len(batch) <= opts.limit[1]

\* a whole-sheet run with limit 1 that has returned its one outcome, a
\* skipped row before it and a row it would have processed after it
C28_Witness ==
    /\ WholeSheet
    /\ run_pc = "done"
    /\ opts.limit = Some(1)
    /\ Len(outcomes) = 1
    /\ \E k \in DOMAIN sheet : k > outcomes[1].row_index /\ Eligible(sheet[k])

=============================================================================
